---- MODULE Spec2Model ----
(***************************************************************************)
(* The phasic code generation agent of worker/agents/core: its build       *)
(* wrapper, the state machine of launchStateMachine and the asynchronous   *)
(* callers that interleave with it at its await points                     *)
(* (generateAllFiles, handleUserInput, queueUserRequest,                   *)
(* cancelCurrentInference).                                                *)
(*                                                                         *)
(* The agent runs on one JavaScript event loop: a step of the model is the *)
(* code that runs between two awaits, so every action is atomic from one   *)
(* suspension point to the next.                                           *)
(***************************************************************************)
EXTENDS Integers, Sequences, FiniteSets, TLC

(***************************************************************************)
(* Program constants and bounds of the model.                              *)
(***************************************************************************)
MAX_PHASES == 12

RECHARGE_PHASES == 3

\* build task slots: how many buildWrapper promises may exist at all
MaxTasks == 2

\* user requests queued over the life of the agent
MaxRequests == 2

\* phases with files that the phase generation operation returns in one run
MaxGenerated == 2

\* executeDeepDebug calls over the life of the agent
MaxSessions == 2

\* executeCommands and execCommands calls over the life of the agent
MaxCalls == 1

\* default of the chunkSize parameter of executeCommands
ChunkSize == 5

\* updateBlueprint calls over the life of the agent
MaxUpdates == 2

\* conversation ids in use
MaxConversationIds == 2

\* commits the workspace holds at most
MaxCommits == 2

\* commits of the history a GitHub export pushes
MaxLocalCommits == 2

\* seconds in which calls on the rate limit stores are made
MaxClock == 2

\* createAgent calls on the agent manager
MaxCreateCalls == 3

\* segments of a path handed to the local sandbox
MaxPathLen == 3

\* calls on the local sandbox
MaxSandboxCalls == 2

\* default of config.bucketSize, in seconds
DefaultBucketSize == 10

\* default of config.burstWindow, in seconds
DefaultBurstWindow == 60

\* seconds between two cleanups of a per-key store
CleanupInterval == 300

Tasks == 1..MaxTasks

Sessions == 1..MaxSessions

Calls == 1..MaxCalls

Updates == 1..MaxUpdates

ConversationIds == 1..MaxConversationIds

\* abort controllers alive at once: one per task plus the current one
Controllers == 1..(MaxTasks + 1)

NULL == 0

IDLE == "IDLE"
PHASE_GENERATING == "PHASE_GENERATING"
PHASE_IMPLEMENTING == "PHASE_IMPLEMENTING"
REVIEWING == "REVIEWING"
FINALIZING == "FINALIZING"

FinalPhaseName == "Finalization and Review"

InitialPhaseName == "Initial"

\* the value of an undefined PhaseConceptType
NoPhase == [name |-> "", lastPhase |-> FALSE, files |-> 0]

\* the value of an undefined UserContext
NoContext == [suggestions |-> <<>>, images |-> <<>>]

\* what a step reports: the handler that ran (op), how its awaited operation
\* ended (ret), the state the handler handed to launchStateMachine (next, ""
\* when it raised), the phases counter it read (n), the state
\* launchStateMachine ended in (exit, "" while it runs on), the messages it
\* broadcast (sent), and whether cancelCurrentInference had been invoked
\* during the state it completes
NoEvent == [op |-> "none", task |-> 0, ret |-> "", next |-> "", n |-> 0, exit |-> "",
            sent |-> <<>>, cancelled |-> FALSE]

\* the locals of an executeCommands or execCommands invocation not yet made
NoCall == [pc |-> "idle", kind |-> "", commands |-> <<>>, chunk |-> 0,
           currentChunk |-> <<>>, retryCount |-> 0, shouldRetry |-> FALSE,
           shouldSave |-> FALSE, successfulCommands |-> <<>>, failures |-> <<>>,
           sends |-> <<>>, saved |-> <<>>, packageJson |-> ""]

VARIABLES
    \* ---- durable agent state (PhasicState)
    generatedPhases,        \* sequence of [name, lastPhase, files, completed]
    phasesCounter,
    pendingUserInputs,      \* sequence of request ids
    mvpGenerated,
    reviewingInitiated,
    currentPhase,           \* state.currentPhase, NoPhase when undefined
    sandboxInstanceId,      \* TRUE when state.sandboxInstanceId is set
    conversationMessages,   \* messages added by the review step
    blueprint,              \* state.blueprint: a value for each of its keys
    \* ---- in-memory fields of BaseAgentBehavior
    pendingUserImages,
    generationPromise,      \* NULL, or the task whose promise it holds
    handlingUserInput,      \* a handleUserInput call awaits its conversation
    currentAbortController, \* NULL, or a controller
    templateDetailsCache,   \* TRUE when loaded
    aborted,                \* controllers whose signal is aborted
    \* ---- the build tasks (one buildWrapper invocation each)
    pc,                     \* suspension point of each task
    currentDevState,        \* local variable of launchStateMachine
    phaseConcept,           \* local variable of launchStateMachine
    userContext,            \* local variable of launchStateMachine
    abortSignal,            \* signal held by the task's inference call in flight
    finalFiles,             \* local of implementPhase: number of files it settled
    \* ---- deep debug sessions (one executeDeepDebug invocation each)
    deepDebugPromise,        \* NULL, or the session whose promise it holds
    deepDebugConversationId, \* NULL, or a conversation id
    lastDeepDebugTranscript, \* state.lastDeepDebugTranscript: NULL, or a transcript
    debugPc,                 \* suspension point of each session
    debugResult,             \* what the session's promise resolved to, "" before
    debugWaiters,            \* sessions a waitForDeepDebug call awaits
    templateDetailsLoading,  \* an ensureTemplateDetails() nobody awaits is in flight
    \* ---- commands (one executeCommands or execCommands invocation each)
    commandsHistory,         \* state.commandsHistory
    lastPackageJson,         \* state.lastPackageJson
    packageJsonFile,         \* package.json of the file map: contents and commit
    commandCalls,            \* locals and suspension point of each invocation
    succeeded,               \* commands the sandbox reported as successful
    \* ---- blueprint updates (one updateBlueprint invocation each)
    blueprintUpdates,        \* argument and suspension point of each invocation
    storedProjectName,       \* the project name in the sandbox instance and in the database
    \* ---- conversation histories of the default session
    currentConversation,     \* state.conversationMessages
    full_conversations,      \* messages of the session's row in full_conversations
    compact_conversations,   \* messages of the session's row in compact_conversations
    conversationCall,        \* the last call on the histories and its argument
    \* ---- the versioned workspace (GitVersionControl over its SqliteFS)
    workspace,               \* commits, the ref main, HEAD, the index and the working files
    gitCall,                 \* the last call on the workspace, its argument and its result
    \* ---- the in-memory rate limit stores
    clock,                   \* Date.now(), in seconds
    store,                   \* InMemoryRateLimitStore.store
    stores,                  \* InMemoryDORateLimitStore.stores
    rateLimitConfig,         \* the config of the calls
    rateLimitCall,           \* the last increment, its key and its result
    granted,                 \* times of the successful increments of each store and key
    \* ---- the GitHub export
    exportRun,               \* locals and suspension point of forcePushToGitHub
    github,                  \* the calls of createBlob, the commits created, the branch ref
    \* ---- pushToGitHub of the agent
    githubTokenCache,        \* the token and username cached, or NoGitHubToken
    pushRun,                 \* argument, broadcasts, result and suspension point of the call
    \* ---- the local sandbox
    disk,                    \* the files of the host, by their absolute path
    processes,               \* LocalSandbox.processes: the ids it holds
    sandboxCall,             \* the last call on the sandbox, its argument and what it did
    \* ---- the agent manager
    agents,                  \* AgentManager.agents: NULL, or the instance under each id
    createCalls,             \* argument, instance and suspension point of each createAgent call
    managerCall,             \* the last call on the manager and its result
    \* ---- observation
    phaseLog,               \* the phase messages broadcast for the last record of generatedPhases
    phaseAnnounced,         \* the task broadcast PHASE_GENERATING for the phase it generates
    wsBuild,                \* last of GENERATION_STARTED / GENERATION_COMPLETE broadcast
    nRequests,              \* queueUserRequest calls so far
    nGenerated,             \* phases with files returned by phase generation so far
    cancelSeen,             \* cancelCurrentInference ran during the task's current state
    cancelHit,              \* ... and found a controller, which it aborted
    finalizeRuns,           \* times the body of executeFinalizing ran
    reviewRuns,             \* times the body of executeReviewCycle ran
    event                   \* what the last step did

vars == <<generatedPhases, phasesCounter, pendingUserInputs, mvpGenerated,
          reviewingInitiated, currentPhase, sandboxInstanceId, conversationMessages,
          blueprint, pendingUserImages, generationPromise, currentAbortController,
          templateDetailsCache, aborted, pc, currentDevState, phaseConcept,
          userContext, abortSignal, finalFiles, wsBuild, nRequests, nGenerated,
          cancelSeen, cancelHit, finalizeRuns, reviewRuns, event,
          deepDebugPromise, deepDebugConversationId, lastDeepDebugTranscript,
          debugPc, debugResult, debugWaiters, templateDetailsLoading,
          commandsHistory, lastPackageJson, packageJsonFile, commandCalls,
          succeeded, blueprintUpdates,
          currentConversation, full_conversations, compact_conversations,
          conversationCall, phaseLog, phaseAnnounced, workspace, gitCall,
          clock, store, stores, rateLimitConfig, rateLimitCall, granted,
          exportRun, github, handlingUserInput, storedProjectName,
          githubTokenCache, pushRun, disk, processes, sandboxCall,
          agents, createCalls, managerCall>>

\* the conversation histories
conversationVars == <<currentConversation, full_conversations, compact_conversations,
                      conversationCall>>

\* the versioned workspace
gitVars == <<workspace, gitCall>>

\* the rate limit stores
rateLimitVars == <<clock, store, stores, rateLimitConfig, rateLimitCall, granted>>

\* the GitHub export
exportVars == <<exportRun, github>>

\* pushToGitHub of the agent
pushVars == <<githubTokenCache, pushRun>>

\* the local sandbox
localSandboxVars == <<disk, processes, sandboxCall>>

\* the agent manager
managerVars == <<agents, createCalls, managerCall>>

\* the GitHub push, the local sandbox and the agent manager
outerVars == <<pushVars, localSandboxVars, managerVars>>

\* what belongs to the services beside the build, the debug sessions, the
\* command executions and the blueprint updates
serviceVars == <<conversationVars, gitVars, rateLimitVars, exportVars, outerVars>>

\* the blueprint updates and what they rename
blueprintVars == <<blueprintUpdates, storedProjectName>>

\* the fields and locals of the command executions
commandVars == <<commandsHistory, lastPackageJson, packageJsonFile, commandCalls,
                 succeeded>>

\* the fields and locals of the deep debug sessions
debugVars == <<deepDebugPromise, deepDebugConversationId, lastDeepDebugTranscript,
               debugPc, debugResult, debugWaiters, templateDetailsLoading>>

\* the state of the build without the blueprint
phaseVars == <<generatedPhases, phasesCounter, pendingUserInputs, mvpGenerated,
               reviewingInitiated, currentPhase, sandboxInstanceId,
               conversationMessages, pendingUserImages,
               generationPromise, aborted, pc, currentDevState, phaseConcept,
               userContext, abortSignal, finalFiles, wsBuild, nRequests,
               nGenerated, cancelSeen, cancelHit, finalizeRuns, reviewRuns,
               phaseLog, phaseAnnounced, handlingUserInput>>

\* what the deep debug sessions and the command executions leave alone
buildVars == <<phaseVars, blueprint>>

\* what the services leave alone
agentVars == <<buildVars, debugVars, commandVars, blueprintVars,
               currentAbortController, templateDetailsCache, event>>

(***************************************************************************)
(* A step works on a record r: the agent's fields together with the locals *)
(* of the task that runs.  Methods of the source are operators from record *)
(* to record, so a synchronous call chain is a composition of operators.   *)
(***************************************************************************)
Cur(t) ==
    [generatedPhases |-> generatedPhases, phasesCounter |-> phasesCounter,
     pendingUserInputs |-> pendingUserInputs, mvpGenerated |-> mvpGenerated,
     reviewingInitiated |-> reviewingInitiated, currentPhase |-> currentPhase,
     sandboxInstanceId |-> sandboxInstanceId,
     conversationMessages |-> conversationMessages, blueprint |-> blueprint,
     pendingUserImages |-> pendingUserImages, generationPromise |-> generationPromise,
     handlingUserInput |-> handlingUserInput,
     currentAbortController |-> currentAbortController,
     templateDetailsCache |-> templateDetailsCache, aborted |-> aborted,
     signals |-> {abortSignal[u] : u \in Tasks \ {t}} \ {NULL},
     task |-> t,
     pc |-> pc[t], currentDevState |-> currentDevState[t],
     phaseConcept |-> phaseConcept[t], userContext |-> userContext[t],
     abortSignal |-> abortSignal[t], finalFiles |-> finalFiles[t],
     wsBuild |-> wsBuild, nRequests |-> nRequests, nGenerated |-> nGenerated,
     cancelSeen |-> cancelSeen[t], cancelHit |-> cancelHit[t],
     finalizeRuns |-> finalizeRuns, reviewRuns |-> reviewRuns,
     phaseLog |-> phaseLog, phaseAnnounced |-> phaseAnnounced[t],
     event |-> NoEvent]

\* controllers still referenced by the agent or an inference call in flight
InUse(r) == ({r.currentAbortController, r.abortSignal} \cup r.signals) \ {NULL}

SetAgent(r) ==
    /\ generatedPhases' = r.generatedPhases
    /\ phasesCounter' = r.phasesCounter
    /\ pendingUserInputs' = r.pendingUserInputs
    /\ mvpGenerated' = r.mvpGenerated
    /\ reviewingInitiated' = r.reviewingInitiated
    /\ currentPhase' = r.currentPhase
    /\ sandboxInstanceId' = r.sandboxInstanceId
    /\ conversationMessages' = r.conversationMessages
    /\ blueprint' = r.blueprint
    /\ pendingUserImages' = r.pendingUserImages
    /\ generationPromise' = r.generationPromise
    /\ handlingUserInput' = r.handlingUserInput
    /\ currentAbortController' = r.currentAbortController
    /\ templateDetailsCache' = r.templateDetailsCache
    /\ aborted' = r.aborted \cap InUse(r)
    /\ pc' = [pc EXCEPT ![r.task] = r.pc]
    /\ currentDevState' = [currentDevState EXCEPT ![r.task] = r.currentDevState]
    /\ phaseConcept' = [phaseConcept EXCEPT ![r.task] = r.phaseConcept]
    /\ userContext' = [userContext EXCEPT ![r.task] = r.userContext]
    /\ abortSignal' = [abortSignal EXCEPT ![r.task] = r.abortSignal]
    /\ finalFiles' = [finalFiles EXCEPT ![r.task] = r.finalFiles]
    /\ nRequests' = r.nRequests
    /\ nGenerated' = r.nGenerated
    /\ wsBuild' = r.wsBuild
    /\ finalizeRuns' = r.finalizeRuns
    /\ reviewRuns' = r.reviewRuns
    /\ phaseLog' = r.phaseLog
    /\ phaseAnnounced' = [phaseAnnounced EXCEPT ![r.task] = r.phaseAnnounced]
    /\ event' = r.event
    /\ UNCHANGED debugVars
    /\ UNCHANGED commandVars
    /\ UNCHANGED blueprintVars
    /\ UNCHANGED serviceVars

Set(r) ==
    /\ SetAgent(r)
    /\ cancelSeen' = [cancelSeen EXCEPT ![r.task] = r.cancelSeen]
    /\ cancelHit' = [cancelHit EXCEPT ![r.task] = r.cancelHit]

Emit(r, op, ret, n) ==
    [r EXCEPT !.event.op = op, !.event.task = r.task, !.event.ret = ret,
              !.event.n = n, !.event.cancelled = r.cancelSeen]

(***************************************************************************)
(* Methods that run without suspending.                                    *)
(***************************************************************************)
broadcast(r, msg) ==
    LET r1 == [r EXCEPT !.event.sent = Append(@, msg)]
    IN  IF msg = "GENERATION_STARTED" THEN [r1 EXCEPT !.wsBuild = "started"]
        ELSE IF msg = "GENERATION_COMPLETE" THEN [r1 EXCEPT !.wsBuild = "complete"]
        ELSE r1

broadcastError(r) == broadcast(r, "ERROR")

\* the messages of the generation of a phase
OfGeneration(msg) == msg \in {"PHASE_GENERATING", "PHASE_GENERATED"}

\* a broadcast whose payload names the phase, or a file of the phase that is
\* being implemented.  The log holds the messages of the last record: those
\* of its generation and those of its latest implementation, which
\* PHASE_IMPLEMENTING starts anew (the catch of a failed implementation
\* drops them); a message for another phase is a stray
broadcastPhase(r, msg, phaseName) ==
    LET n == Len(r.generatedPhases)
        r1 == broadcast(r, msg)
    IN  IF n > 0 /\ r.generatedPhases[n].name = phaseName
        THEN [r1 EXCEPT !.phaseLog.messages =
                Append(IF msg = "PHASE_IMPLEMENTING" THEN SelectSeq(@, OfGeneration) ELSE @,
                       msg)]
        ELSE [r1 EXCEPT !.phaseLog.stray = TRUE]

\* a recharge to the full budget, whatever is asked for
rechargeToMaxPhases(r, max_phases) == [r EXCEPT !.phasesCounter = MAX_PHASES]

rechargePhasesCounter(r, max_phases) ==
    IF r.phasesCounter <= max_phases
    THEN [r EXCEPT !.phasesCounter = max_phases]
    ELSE r

\* a decrement that leaves the counter alone
keepPhasesCounter(r) == r

\* a decrement that refills the budget it has just spent
decrementRefilling(r) ==
    [r EXCEPT !.phasesCounter = IF @ = 1 THEN MAX_PHASES ELSE @ - 1]

decrementPhasesCounter(r) == [r EXCEPT !.phasesCounter = @ - 1]

createNewIncompletePhase(r, p) ==
    [r EXCEPT !.generatedPhases =
                Append(@, [name |-> p.name, lastPhase |-> p.lastPhase,
                           files |-> p.files, completed |-> FALSE]),
              !.phaseLog.messages =
                IF r.phaseAnnounced THEN <<"PHASE_GENERATING">> ELSE <<>>]

markPhaseComplete(r, phaseName) ==
    IF ~ \E i \in DOMAIN r.generatedPhases : r.generatedPhases[i].name = phaseName
    THEN r
    ELSE [r EXCEPT !.generatedPhases =
            [i \in DOMAIN @ |-> IF @[i].name = phaseName
                                THEN [@[i] EXCEPT !.completed = TRUE]
                                ELSE @[i]]]

isCodeGenerating(r) == r.generationPromise # NULL

\* new AbortController(): a controller nothing refers to yet
NewAbortController(r) == CHOOSE c \in Controllers : c \notin InUse(r)

getOrCreateAbortController(r) ==
    IF r.currentAbortController # NULL /\ r.currentAbortController \notin r.aborted
    THEN r
    ELSE [r EXCEPT !.currentAbortController = NewAbortController(r)]

clearAbortController(r) == [r EXCEPT !.currentAbortController = NULL]

\* getOperationOptions() as far as the model needs it: the inference context
\* of the call that starts now carries the current controller's signal
getInferenceContext(r) ==
    LET r1 == getOrCreateAbortController(r)
    IN  [r1 EXCEPT !.abortSignal = r1.currentAbortController]

fetchPendingUserRequests(r) ==
    IF Len(r.pendingUserInputs) > 0 THEN [r EXCEPT !.pendingUserInputs = <<>>] ELSE r

\* the inference call of the task ended (returned or raised)
InferenceDone(r) == [r EXCEPT !.abortSignal = NULL]

(***************************************************************************)
(* buildWrapper after build() has returned: the finally block up to its    *)
(* await of appService.updateApp.                                          *)
(***************************************************************************)
buildWrapperFinally(r) ==
    [clearAbortController(r) EXCEPT !.pc = "wrap_finally"]

\* launchStateMachine leaves its loop (state IDLE) or its catch swallowed an error
ExitStateMachine(r) ==
    buildWrapperFinally([r EXCEPT !.event.exit = r.currentDevState])

(***************************************************************************)
(* The states of launchStateMachine, each up to its first await.           *)
(***************************************************************************)
executeReviewCycle(r) ==
    IF r.reviewingInitiated
    THEN ExitStateMachine([r EXCEPT !.currentDevState = IDLE])
    ELSE [r EXCEPT !.reviewingInitiated = TRUE, !.reviewRuns = @ + 1,
                   !.cancelSeen = FALSE, !.cancelHit = FALSE, !.pc = "fetch_issues"]

FinalPhase == [name |-> FinalPhaseName, lastPhase |-> TRUE, files |-> 0]

\* a finalizing state that does not look at mvpGenerated
executeFinalizingUngated(r) ==
    [createNewIncompletePhase([r EXCEPT !.mvpGenerated = TRUE], FinalPhase)
        EXCEPT !.phaseConcept = FinalPhase, !.userContext = NoContext,
               !.finalizeRuns = @ + 1, !.cancelSeen = FALSE, !.cancelHit = FALSE,
               !.pc = "fetch_issues"]

executeFinalizing(r) ==
    IF r.mvpGenerated
    THEN executeReviewCycle([r EXCEPT !.currentDevState = REVIEWING])
    ELSE [createNewIncompletePhase([r EXCEPT !.mvpGenerated = TRUE], FinalPhase)
            EXCEPT !.phaseConcept = FinalPhase, !.userContext = NoContext,
                   !.finalizeRuns = @ + 1, !.cancelSeen = FALSE, !.cancelHit = FALSE,
                   !.pc = "fetch_issues"]

\* implementPhase up to the await of operations.implementPhase.execute
implementPhase(r) ==
    [getInferenceContext(broadcastPhase(r, "PHASE_IMPLEMENTING", r.phaseConcept.name))
        EXCEPT !.pc = "impl_op"]

\* Every caller passes a defined phase (PhaseConceptDefined below), so the
\* fallback to state.currentPhase and to a nested phase generation is not taken.
executePhaseImplementation(r) ==
    LET r1 == [r EXCEPT !.currentPhase = NoPhase, !.cancelSeen = FALSE, !.cancelHit = FALSE]
    IN  IF r1.sandboxInstanceId
        THEN [r1 EXCEPT !.pc = "fetch_issues"]
        ELSE implementPhase(r1)

executePhaseGeneration(r) == [r EXCEPT !.cancelSeen = FALSE, !.cancelHit = FALSE, !.pc = "fetch_issues"]

\* one turn of the while loop of launchStateMachine
StateMachineLoop(r) ==
    CASE r.currentDevState = PHASE_GENERATING -> executePhaseGeneration(r)
      [] r.currentDevState = PHASE_IMPLEMENTING -> executePhaseImplementation(r)
      [] r.currentDevState = FINALIZING -> executeFinalizing(r)
      [] r.currentDevState = REVIEWING -> executeReviewCycle(r)
      [] OTHER -> ExitStateMachine(r)

\* a launch that looks at no incomplete phase
launchWithoutResume(r) ==
    IF Len(r.generatedPhases) > 0
    THEN StateMachineLoop(
            [r EXCEPT !.currentDevState = PHASE_GENERATING,
                      !.event.next = PHASE_GENERATING,
                      !.phaseConcept = NoPhase, !.userContext = NoContext])
    ELSE StateMachineLoop(
            [createNewIncompletePhase(r, r.blueprint.initialPhase)
                EXCEPT !.currentDevState = PHASE_IMPLEMENTING,
                       !.event.next = PHASE_IMPLEMENTING,
                       !.phaseConcept = r.blueprint.initialPhase,
                       !.userContext = NoContext])

launchStateMachine(r) ==
    LET incompletedPhases ==
            SelectSeq(r.generatedPhases, LAMBDA p : ~ p.completed)
        concept(p) == [name |-> p.name, lastPhase |-> p.lastPhase, files |-> p.files]
    IN  IF Len(incompletedPhases) > 0
        THEN StateMachineLoop(
                [r EXCEPT !.currentDevState = PHASE_IMPLEMENTING,
                          !.event.next = PHASE_IMPLEMENTING,
                          !.phaseConcept = concept(incompletedPhases[Len(incompletedPhases)]),
                          !.userContext = NoContext])
        ELSE IF Len(r.generatedPhases) > 0
        THEN StateMachineLoop(
                [r EXCEPT !.currentDevState = PHASE_GENERATING,
                          !.event.next = PHASE_GENERATING,
                          !.phaseConcept = NoPhase, !.userContext = NoContext])
        ELSE StateMachineLoop(
                [createNewIncompletePhase(r, r.blueprint.initialPhase)
                    EXCEPT !.currentDevState = PHASE_IMPLEMENTING,
                           !.event.next = PHASE_IMPLEMENTING,
                           !.phaseConcept = r.blueprint.initialPhase,
                           !.userContext = NoContext])

(***************************************************************************)
(* generateAllFiles and buildWrapper up to its await of                    *)
(* ensureTemplateDetails.                                                  *)
(***************************************************************************)
buildWrapper(r) ==
    [broadcast(r, "GENERATION_STARTED") EXCEPT !.pc = "ensureTemplate"]

\* a generateAllFiles that does not look at generationPromise
generateAllFilesUnguarded(r) ==
    IF r.mvpGenerated /\ Len(r.pendingUserInputs) = 0
    THEN Emit(r, "generateAllFiles", "completed", 0)
    ELSE [buildWrapper(Emit(r, "generateAllFiles", "started", 0))
            EXCEPT !.generationPromise = r.task]

generateAllFiles(r) ==
    IF r.mvpGenerated /\ Len(r.pendingUserInputs) = 0
    THEN Emit(r, "generateAllFiles", "completed", 0)
    ELSE IF isCodeGenerating(r)
    THEN Emit(r, "generateAllFiles", "inProgress", 0)
    ELSE [buildWrapper(Emit(r, "generateAllFiles", "started", 0))
            EXCEPT !.generationPromise = r.task]

\* the slot a new buildWrapper invocation would take
FreeSlot(t) == pc[t] = "idle" /\ \A u \in Tasks : u < t => pc[u] # "idle"

GenerateAllFiles ==
    \E t \in Tasks : FreeSlot(t) /\ Set(generateAllFiles(Cur(t)))

(***************************************************************************)
(* buildWrapper: await this.ensureTemplateDetails(), outside its try.      *)
(***************************************************************************)
EnsureTemplateDetailsLoaded(t) ==
    /\ pc[t] = "ensureTemplate"
    /\ Set(launchStateMachine(
            [Emit(Cur(t), "launchStateMachine", "ok", 0)
                EXCEPT !.templateDetailsCache = TRUE]))

\* getTemplateDetails did not succeed: the throw leaves buildWrapper before
\* its try, so the promise held by generationPromise is rejected
EnsureTemplateDetailsThrows(t) ==
    /\ pc[t] = "ensureTemplate"
    /\ ~ templateDetailsCache
    /\ Set([Emit(Cur(t), "ensureTemplateDetails", "throw", 0) EXCEPT !.pc = "rejected"])

(***************************************************************************)
(* PHASE_GENERATING                                                        *)
(***************************************************************************)
\* executePhaseGeneration after fetchAllIssues, up to the await of
\* operations.generateNextPhase.execute
generateNextPhaseStart(r) ==
    LET inputs == r.pendingUserInputs
        r1 == fetchPendingUserRequests(r)
        ctx == IF Len(inputs) > 0
               THEN [suggestions |-> inputs, images |-> r.pendingUserImages]
               ELSE NoContext
        r2 == IF Len(ctx.suggestions) > 0 /\ Len(ctx.images) > 0
              THEN [r1 EXCEPT !.pendingUserImages = <<>>]
              ELSE r1
    IN  [getInferenceContext(broadcast([r2 EXCEPT !.userContext = ctx], "PHASE_GENERATING"))
            EXCEPT !.pc = "gen_op", !.phaseAnnounced = TRUE]

\* a generateNextPhase that records no phase
generateNextPhaseWithoutRecord(r, result) ==
    [Emit(broadcast(r, "PHASE_GENERATED"), "generateNextPhase",
          IF result.files = 0 THEN "nofiles" ELSE result.name, r.phasesCounter)
        EXCEPT !.nGenerated = @ + (IF result.files = 0 THEN 0 ELSE 1)]

\* operations.generateNextPhase.execute returned result
generateNextPhaseReturns(r, result) ==
    IF result.files = 0
    THEN [Emit(broadcast(r, "PHASE_GENERATED"), "generateNextPhase", "nofiles",
               r.phasesCounter)
            EXCEPT !.phaseAnnounced = FALSE]
    ELSE [Emit(broadcastPhase(createNewIncompletePhase(r, result), "PHASE_GENERATED",
                              result.name),
               "generateNextPhase", result.name, r.phasesCounter)
            EXCEPT !.nGenerated = @ + 1, !.phaseAnnounced = FALSE]

\* executePhaseGeneration from the return of generateNextPhase to the next await
executePhaseGenerationReturns(r, result) ==
    LET r1 == InferenceDone(generateNextPhaseReturns(r, result))
    IN  IF result.files = 0
        THEN StateMachineLoop([r1 EXCEPT !.currentDevState = FINALIZING,
                                         !.event.next = FINALIZING,
                                         !.phaseConcept = NoPhase,
                                         !.userContext = NoContext])
        ELSE StateMachineLoop([r1 EXCEPT !.currentPhase = result,
                                         !.currentDevState = PHASE_IMPLEMENTING,
                                         !.event.next = PHASE_IMPLEMENTING,
                                         !.phaseConcept = result])

\* the catch of executePhaseGeneration
executePhaseGenerationCatch(r, kind) ==
    LET r1 == [InferenceDone(Emit(r, "executePhaseGeneration", kind, r.phasesCounter))
                EXCEPT !.phaseAnnounced = FALSE]
    IN  IF kind = "rateLimit"
        THEN ExitStateMachine(r1)
        ELSE StateMachineLoop([broadcastError(r1) EXCEPT !.currentDevState = IDLE,
                                                         !.event.next = IDLE,
                                                         !.phaseConcept = NoPhase,
                                                         !.userContext = NoContext])

\* a name no recorded phase has
FreshName(phases) == "P" \o ToString(Len(phases))

\* what operations.generateNextPhase.execute may return: a phase with files,
\* last or not, or a phase without files
GeneratedPhaseResults(phases, n) ==
    {[name |-> FreshName(phases), lastPhase |-> FALSE, files |-> 0]}
    \cup (IF n < MaxGenerated
          THEN {[name |-> FreshName(phases), lastPhase |-> l, files |-> 1] : l \in BOOLEAN}
          ELSE {})

\* how an inference call may raise: an aborted signal makes it raise the abort error
Raises(t) == IF abortSignal[t] \in aborted THEN {"abort"} ELSE {"rateLimit", "error"}

FetchIssuesForGeneration(t) ==
    /\ pc[t] = "fetch_issues"
    /\ currentDevState[t] = PHASE_GENERATING
    /\ Set(generateNextPhaseStart(Cur(t)))

GenerateNextPhaseReturns(t) ==
    /\ pc[t] = "gen_op"
    /\ abortSignal[t] \notin aborted
    /\ \E result \in GeneratedPhaseResults(generatedPhases, nGenerated) :
            Set(executePhaseGenerationReturns(Cur(t), result))

GenerateNextPhaseThrows(t) ==
    /\ pc[t] = "gen_op"
    /\ \E kind \in Raises(t) : Set(executePhaseGenerationCatch(Cur(t), kind))

(***************************************************************************)
(* implementPhase, called by executePhaseImplementation and by             *)
(* executeFinalizing (currentDevState tells which).                        *)
(***************************************************************************)
\* operations.implementPhase.execute returned: up to the await of
\* fileManager.saveGeneratedFiles
implementPhaseReturns(r, files) ==
    LET r1 == IF files > 0
              THEN broadcastPhase(broadcastPhase(r, "FILE_GENERATING", r.phaseConcept.name),
                                  "FILE_GENERATED", r.phaseConcept.name)
              ELSE r
    IN  [InferenceDone(broadcastPhase(r1, "PHASE_VALIDATING", r.phaseConcept.name))
            EXCEPT !.finalFiles = files, !.pc = "impl_post"]

\* implementPhase after saving, running commands and deploying: with issues
\* left by the deterministic fixes, applyFastSmartCodeFixes starts the
\* inference call of operations.fastCodeFixer
applyFastSmartCodeFixes(r) == [getInferenceContext(r) EXCEPT !.pc = "impl_fix"]

\* an implementPhase that reports the phase implemented before validated
implementPhaseCompletesBeforeValidated(r, fastFix) ==
    LET r1 == IF fastFix THEN InferenceDone(r) ELSE r
    IN  [markPhaseComplete(
            broadcastPhase(broadcastPhase(r1, "PHASE_IMPLEMENTED", r.phaseConcept.name),
                           "PHASE_VALIDATED", r.phaseConcept.name),
            r.phaseConcept.name)
         EXCEPT !.finalFiles = 0]

\* implementPhase after saving, running commands, deploying and fixing.
\* fastFix: the inference call of applyFastSmartCodeFixes has settled.
implementPhaseCompletes(r, fastFix) ==
    LET r1 == IF fastFix THEN InferenceDone(r) ELSE r
    IN  [markPhaseComplete(
            broadcastPhase(broadcastPhase(r1, "PHASE_VALIDATED", r.phaseConcept.name),
                           "PHASE_IMPLEMENTED", r.phaseConcept.name),
            r.phaseConcept.name)
         EXCEPT !.finalFiles = 0]

\* a decision that finalizes on a last phase only
NextStateByLastPhase(phase, counter, pending) ==
    IF phase.lastPhase /\ Len(pending) = 0 THEN FINALIZING ELSE PHASE_GENERATING

\* the decision with no regard for the pending user inputs
NextStateIgnoringPending(phase, counter, pending) ==
    IF phase.lastPhase \/ counter <= 0 THEN FINALIZING ELSE PHASE_GENERATING

\* the decision of executePhaseImplementation on the decremented counter
NextStateAfterImplementation(phase, counter, pending) ==
    IF (phase.lastPhase \/ counter <= 0) /\ Len(pending) = 0
    THEN FINALIZING
    ELSE PHASE_GENERATING

\* executePhaseImplementation from the return of implementPhase to the next await
executePhaseImplementationReturns(r) ==
    LET r1 == decrementPhasesCounter(r)
        next == NextStateAfterImplementation(r.phaseConcept, r1.phasesCounter,
                                             r1.pendingUserInputs)
    IN  StateMachineLoop(
            [Emit(r1, "executePhaseImplementation", "ok", r.phasesCounter)
                EXCEPT !.currentDevState = next, !.event.next = next,
                       !.userContext = NoContext])

\* the catch of executePhaseImplementation
executePhaseImplementationCatch(r, kind) ==
    LET r1 == [InferenceDone(Emit(r, "executePhaseImplementation", kind, r.phasesCounter))
                EXCEPT !.finalFiles = 0,
                       !.phaseLog.messages = SelectSeq(@, OfGeneration)]
    IN  IF kind = "rateLimit"
        THEN ExitStateMachine(r1)
        ELSE StateMachineLoop([r1 EXCEPT !.currentDevState = IDLE,
                                         !.event.next = IDLE,
                                         !.userContext = NoContext])

\* executeFinalizing from the return of implementPhase
executeFinalizingReturns(r) ==
    StateMachineLoop([Emit(r, "executeFinalizing", "ok", r.phasesCounter)
                        EXCEPT !.currentDevState = REVIEWING,
                               !.event.next = REVIEWING])

\* implementPhase raised inside executeFinalizing: only the catch of
\* launchStateMachine sees it
executeFinalizingThrows(r, kind) ==
    ExitStateMachine([InferenceDone(Emit(r, "executeFinalizing", kind, r.phasesCounter))
                        EXCEPT !.finalFiles = 0,
                               !.phaseLog.messages = SelectSeq(@, OfGeneration)])

Implementing(t) == currentDevState[t] \in {PHASE_IMPLEMENTING, FINALIZING}

FetchIssuesForImplementation(t) ==
    /\ pc[t] = "fetch_issues"
    /\ Implementing(t)
    /\ Set(implementPhase(Cur(t)))

ImplementPhaseReturns(t) ==
    /\ pc[t] = "impl_op"
    /\ abortSignal[t] \notin aborted
    /\ \E files \in 0..(IF phaseConcept[t].files > 0 THEN 1 ELSE 0) :
            Set(implementPhaseReturns(Cur(t), files))

ImplementPhaseThrows(t) ==
    /\ pc[t] = "impl_op"
    /\ \E kind \in Raises(t) :
            Set(IF currentDevState[t] = PHASE_IMPLEMENTING
                THEN executePhaseImplementationCatch(Cur(t), kind)
                ELSE executeFinalizingThrows(Cur(t), kind))

ImplementPhaseCompletes(t) ==
    /\ pc[t] = "impl_post"
    /\ LET r == implementPhaseCompletes(Cur(t), FALSE)
       IN  Set(IF currentDevState[t] = PHASE_IMPLEMENTING
               THEN executePhaseImplementationReturns(r)
               ELSE executeFinalizingReturns(r))

\* files were deployed and the static analysis still has issues
ApplyFastSmartCodeFixes(t) ==
    /\ pc[t] = "impl_post"
    /\ finalFiles[t] > 0
    /\ Set(applyFastSmartCodeFixes(Cur(t)))

\* operations.fastCodeFixer.execute settled: applyFastSmartCodeFixes catches
\* what it raises and broadcasts the error, and implementPhase goes on
FastCodeFixerSettles(t) ==
    /\ pc[t] = "impl_fix"
    /\ \E raised \in (IF abortSignal[t] \in aborted THEN {TRUE} ELSE BOOLEAN) :
        LET r == implementPhaseCompletes(
                    IF raised THEN broadcastError(Cur(t)) ELSE Cur(t), TRUE)
        IN  Set(IF currentDevState[t] = PHASE_IMPLEMENTING
                THEN executePhaseImplementationReturns(r)
                ELSE executeFinalizingReturns(r))

\* saveGeneratedFiles (a failed commit raises) or deployToSandbox raised
ImplementPhaseSaveThrows(t) ==
    /\ pc[t] = "impl_post"
    /\ Set(IF currentDevState[t] = PHASE_IMPLEMENTING
           THEN executePhaseImplementationCatch(Cur(t), "saveError")
           ELSE executeFinalizingThrows(Cur(t), "saveError"))

(***************************************************************************)
(* REVIEWING                                                               *)
(***************************************************************************)
\* a review that offers deep_debug whatever was fetched
executeReviewCycleAlwaysPrompts(r, runtimeErrors, typecheckIssues) ==
    StateMachineLoop(
        [Emit(broadcast([r EXCEPT !.conversationMessages = Append(@, "deep_debug_prompt")],
                        "CONVERSATION_RESPONSE"),
              "executeReviewCycle", "ok", runtimeErrors + typecheckIssues)
            EXCEPT !.currentDevState = IDLE, !.event.next = IDLE])

\* executeReviewCycle after fetchAllIssues(false) returned that many runtime
\* errors and typecheck issues (lint issues play no part)
executeReviewCycleReturns(r, runtimeErrors, typecheckIssues) ==
    LET r1 == IF runtimeErrors > 0 \/ typecheckIssues > 0
              THEN broadcast([r EXCEPT !.conversationMessages =
                                    Append(@, "deep_debug_prompt")],
                             "CONVERSATION_RESPONSE")
              ELSE r
    IN  StateMachineLoop(
            [Emit(r1, "executeReviewCycle", "ok", runtimeErrors + typecheckIssues)
                EXCEPT !.currentDevState = IDLE, !.event.next = IDLE])

FetchIssuesForReview(t) ==
    /\ pc[t] = "fetch_issues"
    /\ currentDevState[t] = REVIEWING
    /\ \E runtimeErrors \in 0..1, typecheckIssues \in 0..1 :
            Set(executeReviewCycleReturns(Cur(t), runtimeErrors, typecheckIssues))

(***************************************************************************)
(* buildWrapper: the end of its finally block.                             *)
(***************************************************************************)
buildWrapperEnds(r) ==
    [broadcast([Emit(r, "buildWrapper", r.currentDevState, 0)
                    EXCEPT !.generationPromise = NULL],
               "GENERATION_COMPLETE")
        EXCEPT !.pc = "idle", !.currentDevState = IDLE, !.phaseConcept = NoPhase,
               !.userContext = NoContext, !.cancelSeen = FALSE, !.cancelHit = FALSE]

UpdateAppDone(t) ==
    /\ pc[t] = "wrap_finally"
    /\ Set(buildWrapperEnds(Cur(t)))

(***************************************************************************)
(* Callers that run between the awaits of the build.                       *)
(***************************************************************************)
cancelCurrentInference(r) ==
    IF r.currentAbortController # NULL
    THEN [r EXCEPT !.aborted = @ \cup {r.currentAbortController},
                   !.currentAbortController = NULL]
    ELSE r

\* a task that is inside executePhaseImplementation
InImplementing(t) ==
    /\ pc[t] \in {"fetch_issues", "impl_op", "impl_post", "impl_fix"}
    /\ currentDevState[t] = PHASE_IMPLEMENTING

CancelCurrentInference ==
    /\ SetAgent(cancelCurrentInference(Cur(1)))
    /\ cancelSeen' = [t \in Tasks |-> cancelSeen[t] \/ InImplementing(t)]
    /\ cancelHit' = [t \in Tasks |->
            cancelHit[t] \/ (InImplementing(t) /\ currentAbortController # NULL)]

\* a queueUserRequest that puts the request in place of the queue
queueUserRequestReplacing(r, request, images) ==
    LET r1 == rechargePhasesCounter(r, RECHARGE_PHASES)
        r2 == [r1 EXCEPT !.pendingUserInputs = <<request>>]
    IN  IF Len(images) > 0
        THEN [r2 EXCEPT !.pendingUserImages = @ \o images]
        ELSE r2

\* PhasicAgentBehavior.queueUserRequest, with BaseAgentBehavior.queueUserRequest
queueUserRequest(r, request, images) ==
    LET r1 == rechargePhasesCounter(r, RECHARGE_PHASES)
        r2 == [r1 EXCEPT !.pendingUserInputs = Append(@, request)]
    IN  IF Len(images) > 0
        THEN [r2 EXCEPT !.pendingUserImages = @ \o images]
        ELSE r2

\* the conversation processor queues the request (its queue_request tool)
QueueUserRequest ==
    /\ nRequests < MaxRequests
    /\ \E images \in {<<>>, <<nRequests + 1>>} :
            Set([queueUserRequest(Emit(Cur(1), "queueUserRequest", "", phasesCounter),
                                  nRequests + 1, images)
                    EXCEPT !.nRequests = @ + 1])

\* handleUserInput after processUserMessage returned and the conversation
\* state was stored
handleUserInputReturns(r) ==
    IF r.generationPromise = NULL THEN generateAllFiles(r) ELSE r

HandleUserInputReturns ==
    \E t \in Tasks : FreeSlot(t) /\ Set(handleUserInputReturns(Cur(t)))

(***************************************************************************)
(* handleUserInput from its call to its return: the conversation it awaits *)
(* (operations.processUserMessage) may queue a request with its            *)
(* queue_request tool, and when it has returned handleUserInput starts a   *)
(* build unless one runs.                                                  *)
(***************************************************************************)
\* handleUserInput up to the await of operations.processUserMessage.execute
handleUserInput(r) ==
    [Emit(r, "handleUserInput", "started", 0) EXCEPT !.handlingUserInput = TRUE]

HandleUserInput ==
    /\ ~ handlingUserInput
    /\ nRequests < MaxRequests
    /\ Set(handleUserInput(Cur(1)))

\* the conversation calls queueUserRequest
ConversationQueuesRequest ==
    /\ handlingUserInput
    /\ QueueUserRequest

\* operations.processUserMessage.execute returned
HandleUserInputEnds ==
    /\ handlingUserInput
    /\ \E t \in Tasks :
            /\ FreeSlot(t)
            /\ Set([handleUserInputReturns(Cur(t)) EXCEPT !.handlingUserInput = FALSE])

\* initializeAsync: deployToSandbox provisioned the sandbox instance
SandboxDeployed ==
    /\ ~ sandboxInstanceId
    /\ Set([Cur(1) EXCEPT !.sandboxInstanceId = TRUE])

(***************************************************************************)
(* generateFiles: the deep debugger has a phase of its own implemented,    *)
(* under a name it chooses.  The call takes a task slot for the locals of  *)
(* its implementPhase, which runs with postPhaseFixing = false.            *)
(***************************************************************************)
\* the name of a phase the debugger makes up
DebuggerPhaseName == "Fix"

\* the phase generateFiles builds from its arguments
DebuggerPhase(phaseName) == [name |-> phaseName, lastPhase |-> TRUE, files |-> 1]

\* the names the debugger may pass: one of its own, or the name of a phase
\* that is not implemented yet (the name of an implemented phase changes no
\* record, as a name of its own)
DebuggerPhaseNames(phases) ==
    {DebuggerPhaseName} \cup {phases[i].name : i \in {j \in DOMAIN phases : ~ phases[j].completed}}

\* generateFiles up to the await of operations.implementPhase.execute
generateFiles(r, phaseName) ==
    [implementPhase([r EXCEPT !.phaseConcept = DebuggerPhase(phaseName),
                              !.userContext = NoContext])
        EXCEPT !.pc = "tool_op"]

\* generateFiles returns or raises
generateFilesEnds(r, ret) ==
    [Emit(r, "generateFiles", ret, 0)
        EXCEPT !.pc = "idle", !.phaseConcept = NoPhase, !.userContext = NoContext,
               !.finalFiles = 0]

\* the debugger is at work on an agent that is not building
GenerateFiles(t) ==
    /\ FreeSlot(t)
    /\ generationPromise = NULL
    /\ \E phaseName \in DebuggerPhaseNames(generatedPhases) :
            Set(generateFiles(Cur(t), phaseName))

GenerateFilesOperationReturns(t) ==
    /\ pc[t] = "tool_op"
    /\ abortSignal[t] \notin aborted
    /\ \E files \in 0..1 :
            Set([implementPhaseReturns(Cur(t), files) EXCEPT !.pc = "tool_post"])

GenerateFilesOperationThrows(t) ==
    /\ pc[t] = "tool_op"
    /\ \E kind \in Raises(t) : Set(generateFilesEnds(InferenceDone(Cur(t)), kind))

\* the files are saved and deployed, no fixes follow
GenerateFilesReturns(t) ==
    /\ pc[t] = "tool_post"
    /\ Set(generateFilesEnds(implementPhaseCompletes(Cur(t), FALSE), "ok"))

GenerateFilesSaveThrows(t) ==
    /\ pc[t] = "tool_post"
    /\ Set(generateFilesEnds(Cur(t), "saveError"))

GenerateFilesStep(t) ==
    \/ GenerateFiles(t)
    \/ GenerateFilesOperationReturns(t)
    \/ GenerateFilesOperationThrows(t)
    \/ GenerateFilesReturns(t)
    \/ GenerateFilesSaveThrows(t)

(***************************************************************************)
(* Deep debug sessions: executeDeepDebug, waitForDeepDebug and the         *)
(* conversation callback of handleUserInput.  The body of a session is an  *)
(* async function that executeDeepDebug invokes and whose promise it       *)
(* stores afterwards: the body runs up to its first await before the       *)
(* promise is stored.                                                      *)
(***************************************************************************)
DebugEvent(op, s, ret) == [NoEvent EXCEPT !.op = op, !.task = s, !.ret = ret]

isDeepDebugging == deepDebugPromise # NULL

\* sessions whose body has started and has not settled
RunningSessions == {s \in Sessions : debugPc[s] \in {"fetchRuntimeErrors", "run"}}

\* the finally block of the session body, after its try or its catch
\* returned ret; a waitForDeepDebug that awaits the promise resumes right
\* after and assigns null once more
DeepDebugSettles(s, ret) ==
    /\ debugPc' = [debugPc EXCEPT ![s] = "settled"]
    /\ debugResult' = [debugResult EXCEPT ![s] = ret]
    /\ deepDebugPromise' = NULL
    /\ deepDebugConversationId' = NULL
    /\ debugWaiters' = debugWaiters \ {s}
    /\ event' = DebugEvent("executeDeepDebug", s, ret)

\* executeDeepDebug is called: the body runs to its first await, then the
\* promise is stored.  With the template details loaded that await is
\* fetchRuntimeErrors.  Without them getTemplateDetails throws inside
\* getOperationOptions (and starts a load nobody awaits): catch and finally
\* of the body run at once, and the promise stored after them is settled
ExecuteDeepDebug(s) ==
    /\ debugPc[s] = "idle"
    /\ \A u \in Sessions : u < s => debugPc[u] # "idle"
    /\ IF templateDetailsCache
       THEN /\ currentAbortController' =
                    getOrCreateAbortController(Cur(1)).currentAbortController
            /\ debugPc' = [debugPc EXCEPT ![s] = "fetchRuntimeErrors"]
            /\ deepDebugPromise' = s
            /\ event' = DebugEvent("executeDeepDebug", s, "")
            /\ UNCHANGED <<deepDebugConversationId, debugResult,
                           templateDetailsLoading>>
       ELSE /\ debugPc' = [debugPc EXCEPT ![s] = "settled"]
            /\ debugResult' = [debugResult EXCEPT ![s] = "error"]
            /\ deepDebugPromise' = s
            /\ deepDebugConversationId' = NULL
            /\ templateDetailsLoading' = TRUE
            /\ event' = DebugEvent("executeDeepDebug", s, "error")
            /\ UNCHANGED currentAbortController
    /\ UNCHANGED <<buildVars, commandVars, blueprintVars, serviceVars, templateDetailsCache, lastDeepDebugTranscript,
                   debugWaiters>>

\* the load started by getTemplateDetails ends
TemplateDetailsLoadSettles ==
    /\ templateDetailsLoading
    /\ templateDetailsLoading' = FALSE
    /\ \E loaded \in BOOLEAN : templateDetailsCache' = (templateDetailsCache \/ loaded)
    /\ event' = DebugEvent("ensureTemplateDetails", 0, "")
    /\ UNCHANGED <<buildVars, commandVars, blueprintVars, serviceVars, currentAbortController, deepDebugPromise,
                   deepDebugConversationId, lastDeepDebugTranscript, debugPc,
                   debugResult, debugWaiters>>

\* fetchRuntimeErrors(false) returned (a failed fetch returns a placeholder):
\* the session creates the debugger and awaits its run
DebugFetchRuntimeErrorsReturns(s) ==
    /\ debugPc[s] = "fetchRuntimeErrors"
    /\ debugPc' = [debugPc EXCEPT ![s] = "run"]
    /\ event' = DebugEvent("fetchRuntimeErrors", s, "ok")
    /\ UNCHANGED <<buildVars, commandVars, blueprintVars, serviceVars, currentAbortController, templateDetailsCache,
                   deepDebugPromise, deepDebugConversationId,
                   lastDeepDebugTranscript, debugResult, debugWaiters,
                   templateDetailsLoading>>

\* waitForPreview, awaited by fetchRuntimeErrors outside its try, rejected
DebugFetchRuntimeErrorsThrows(s) ==
    /\ debugPc[s] = "fetchRuntimeErrors"
    /\ DeepDebugSettles(s, "error")
    /\ UNCHANGED <<buildVars, commandVars, blueprintVars, serviceVars, currentAbortController, templateDetailsCache,
                   lastDeepDebugTranscript, templateDetailsLoading>>

\* dbg.run returned the transcript of session s, which setState stores
DeepCodeDebuggerReturns(s) ==
    /\ debugPc[s] = "run"
    /\ lastDeepDebugTranscript' = s
    /\ DeepDebugSettles(s, "success")
    /\ UNCHANGED <<buildVars, commandVars, blueprintVars, serviceVars, currentAbortController, templateDetailsCache,
                   templateDetailsLoading>>

DeepCodeDebuggerThrows(s) ==
    /\ debugPc[s] = "run"
    /\ DeepDebugSettles(s, "error")
    /\ UNCHANGED <<buildVars, commandVars, blueprintVars, serviceVars, currentAbortController, templateDetailsCache,
                   lastDeepDebugTranscript, templateDetailsLoading>>

\* waitForDeepDebug: with a promise stored it awaits it and then assigns
\* null; a promise already settled is awaited for no longer than a microtask
WaitForDeepDebug ==
    /\ deepDebugPromise # NULL
    /\ IF debugPc[deepDebugPromise] = "settled"
       THEN /\ deepDebugPromise' = NULL
            /\ UNCHANGED debugWaiters
       ELSE /\ debugWaiters' = debugWaiters \cup {deepDebugPromise}
            /\ UNCHANGED deepDebugPromise
    /\ event' = DebugEvent("waitForDeepDebug", deepDebugPromise, "")
    /\ UNCHANGED <<buildVars, commandVars, blueprintVars, serviceVars, currentAbortController, templateDetailsCache,
                   deepDebugConversationId, lastDeepDebugTranscript, debugPc,
                   debugResult, templateDetailsLoading>>

\* the conversation callback of handleUserInput reports the start of the
\* deep_debug tool in conversation c
DeepDebugToolStarts(c) ==
    /\ deepDebugConversationId' = c
    /\ event' = DebugEvent("conversationResponseCallback", c, "")
    /\ UNCHANGED <<buildVars, commandVars, blueprintVars, serviceVars, currentAbortController, templateDetailsCache,
                   deepDebugPromise, lastDeepDebugTranscript, debugPc,
                   debugResult, debugWaiters, templateDetailsLoading>>

DebugStep(s) ==
    \/ ExecuteDeepDebug(s)
    \/ DebugFetchRuntimeErrorsReturns(s)
    \/ DebugFetchRuntimeErrorsThrows(s)
    \/ DeepCodeDebuggerReturns(s)
    \/ DeepCodeDebuggerThrows(s)
    \/ DeepDebugToolStarts(s)

(***************************************************************************)
(* Commands.  A command is the sequence of its characters, so that the     *)
(* string operations of the source are computed on it.                     *)
(***************************************************************************)
BunAddX == <<"b", "u", "n", " ", "a", "d", "d", " ", "x">>

BunAddZ == <<"b", "u", "n", " ", "a", "d", "d", " ", "z">>

BunInstall == <<"b", "u", "n", " ", "i", "n", "s", "t", "a", "l", "l">>

NpmInstall == <<"n", "p", "m", " ", "i", "n", "s", "t", "a", "l", "l">>

DashBunAddX == <<"-", " ", "b", "u", "n", " ", "a", "d", "d", " ", "x">>

MkdirA == <<"m", "k", "d", "i", "r", " ", "a">>

PaddedMkdirB == <<" ", "m", "k", "d", "i", "r", " ", "b", " ">>

BunRemoveY == <<"b", "u", "n", " ", "r", "e", "m", "o", "v", "e", " ", "y">>

BunAddUndefined == <<"b", "u", "n", " ", "a", "d", "d", " ", "u", "n", "d", "e", "f", "i", "n", "e", "d">>

HashSetup == <<"#", " ", "s", "e", "t", "u", "p">>

TwoLines == <<"m", "k", "d", "i", "r", " ", "a", "\n", "b", "u", "n", " ", "a", "d", "d", " ", "x">>

\* String.prototype.includes / startsWith
includes(str, sub) ==
    \E i \in 1..(Len(str) - Len(sub) + 1) : SubSeq(str, i, i + Len(sub) - 1) = sub

startsWith(str, sub) == Len(sub) <= Len(str) /\ SubSeq(str, 1, Len(sub)) = sub

IsSpace(c) == c \in {" ", "\n"}

RECURSIVE trimStart(_)
trimStart(str) ==
    IF str # <<>> /\ IsSpace(Head(str)) THEN trimStart(Tail(str)) ELSE str

RECURSIVE trimEnd(_)
trimEnd(str) ==
    IF str # <<>> /\ IsSpace(str[Len(str)])
    THEN trimEnd(SubSeq(str, 1, Len(str) - 1))
    ELSE str

\* String.prototype.trim
trim(str) == trimEnd(trimStart(str))

\* str.replace(/^\s*-\s*/, '')
stripListDash(str) ==
    LET t == trimStart(str)
    IN  IF startsWith(t, <<"-">>) THEN trimStart(Tail(t)) ELSE str

\* str.replace(/^npm/, 'bun')
npmToBun(str) ==
    IF startsWith(str, <<"n", "p", "m">>)
    THEN <<"b", "u", "n">> \o SubSeq(str, 4, Len(str))
    ELSE str

\* commands.join('\n').split('\n'): the lines of all the commands
RECURSIVE splitLines(_)
splitLines(str) ==
    IF \E i \in 1..Len(str) : str[i] = "\n"
    THEN LET i == CHOOSE j \in 1..Len(str) :
                    str[j] = "\n" /\ \A k \in 1..(j - 1) : str[k] # "\n"
         IN  <<SubSeq(str, 1, i - 1)>> \o splitLines(SubSeq(str, i + 1, Len(str)))
    ELSE <<str>>

RECURSIVE joinAndSplit(_)
joinAndSplit(commands) ==
    IF commands = <<>> THEN <<>>
    ELSE splitLines(Head(commands)) \o joinAndSplit(Tail(commands))

\* Array.from(new Set(commands)): the first occurrence of each element
RECURSIVE unique(_)
unique(seq) ==
    IF seq = <<>> THEN <<>>
    ELSE LET init == unique(SubSeq(seq, 1, Len(seq) - 1))
             last == seq[Len(seq)]
         IN  IF \E i \in DOMAIN init : init[i] = last THEN init ELSE Append(init, last)

Range(seq) == {seq[i] : i \in DOMAIN seq}

\* the first word of a line, after leading blanks and a list dash
FirstWord(str) ==
    LET t == stripListDash(trimStart(str))
        n == IF \E i \in 1..Len(t) : IsSpace(t[i])
             THEN (CHOOSE j \in 1..Len(t) :
                        IsSpace(t[j]) /\ \A k \in 1..(j - 1) : ~ IsSpace(t[k])) - 1
             ELSE Len(t)
    IN  SubSeq(t, 1, n)

\* the "looks like a command" predicate of utils/common: the line starts
\* with the name of a program
looksLikeCommand(str) ==
    FirstWord(str) \in {<<"b", "u", "n">>, <<"n", "p", "m">>,
                        <<"m", "k", "d", "i", "r">>}

\* validateAndCleanBootstrapCommands of utils/common, validCommands: the
\* entries that look like a command, each once, in their order
validateAndCleanBootstrapCommands(commands) ==
    unique(SelectSeq(commands, looksLikeCommand))

\* the commands executeCommands is left with after it sanitized its argument
sanitizeCommands(commands) ==
    LET NotBlank(cmd) == trim(cmd) # <<>>
        Usable(cmd) == looksLikeCommand(cmd)
                         /\ ~ includes(cmd, <<" ", "u", "n", "d", "e", "f", "i", "n", "e", "d">>)
        Clean(cmd) == npmToBun(stripListDash(trim(cmd)))
        kept == SelectSeq(SelectSeq(joinAndSplit(commands), NotBlank), Usable)
    IN  unique([i \in DOMAIN kept |-> Clean(kept[i])])

(***************************************************************************)
(* executeCommands, execCommands, saveExecutedCommands and                 *)
(* syncPackageJsonFromSandbox.  A step works on a record m: the fields of  *)
(* the agent the commands touch together with the locals of the            *)
(* invocation that runs.                                                   *)
(***************************************************************************)
\* what executeCommands and execCommands are called with
CommandLists ==
    {<<HashSetup, BunAddUndefined>>, <<BunAddX>>, <<MkdirA>>,
     <<NpmInstall, DashBunAddX, BunAddX, TwoLines>>,
     <<BunAddX, BunInstall, MkdirA, BunRemoveY, BunAddZ, PaddedMkdirB>>}

\* what the project setup assistant suggests: commands, or nothing
Alternatives ==
    {<<>>, <<BunAddZ>>, <<BunAddUndefined>>, <<HashSetup>>}

\* contents of package.json in the sandbox
PackageJsonContents == {"", "v1"}

\* results the sandbox reports for a chunk of n commands, as the positions
\* of the commands that succeeded: none, all, all but the first
Outcomes(n) == {{}, 1..n, 2..n}

SyncCommit == "chore: sync package.json dependencies from sandbox"

CmdCur(c) ==
    [id |-> c,
     pc |-> commandCalls[c].pc, kind |-> commandCalls[c].kind,
     commands |-> commandCalls[c].commands, chunk |-> commandCalls[c].chunk,
     currentChunk |-> commandCalls[c].currentChunk,
     retryCount |-> commandCalls[c].retryCount,
     shouldRetry |-> commandCalls[c].shouldRetry,
     shouldSave |-> commandCalls[c].shouldSave,
     successfulCommands |-> commandCalls[c].successfulCommands,
     failures |-> commandCalls[c].failures, sends |-> commandCalls[c].sends,
     saved |-> commandCalls[c].saved, packageJson |-> commandCalls[c].packageJson,
     commandsHistory |-> commandsHistory, lastPackageJson |-> lastPackageJson,
     packageJsonFile |-> packageJsonFile, succeeded |-> succeeded,
     sandboxInstanceId |-> sandboxInstanceId,
     event |-> NoEvent]

CmdSet(m) ==
    /\ commandCalls' = [commandCalls EXCEPT ![m.id] = [f \in DOMAIN NoCall |-> m[f]]]
    /\ commandsHistory' = m.commandsHistory
    /\ lastPackageJson' = m.lastPackageJson
    /\ packageJsonFile' = m.packageJsonFile
    /\ succeeded' = m.succeeded
    /\ event' = m.event
    /\ UNCHANGED <<buildVars, debugVars, blueprintVars, serviceVars, currentAbortController,
                   templateDetailsCache>>

CmdEmit(m, op, ret) == [m EXCEPT !.event.op = op, !.event.task = m.id, !.event.ret = ret]

cmdBroadcast(m, msg) == [m EXCEPT !.event.sent = Append(@, msg)]

\* the elements of seq at the positions in S, in their order
RECURSIVE Pick(_, _)
Pick(seq, S) ==
    IF seq = <<>> THEN <<>>
    ELSE Pick(SubSeq(seq, 1, Len(seq) - 1), S)
            \o (IF Len(seq) \in S THEN <<seq[Len(seq)]>> ELSE <<>>)

\* the chunks executeCommands cuts its commands into
chunksOf(commands) ==
    [i \in 1..((Len(commands) + ChunkSize - 1) \div ChunkSize) |->
        SubSeq(commands, (i - 1) * ChunkSize + 1,
               IF i * ChunkSize < Len(commands) THEN i * ChunkSize ELSE Len(commands))]

\* a retry budget one larger
maxRetriesPlusOne(m) == IF m.shouldRetry THEN 4 ELSE 1

maxRetries(m) == IF m.shouldRetry THEN 3 ELSE 1

\* the invocation returned (or its promise settled)
callEnds(m) ==
    [m EXCEPT !.pc = "done", !.commands = <<>>, !.chunk = 0, !.currentChunk = <<>>,
              !.retryCount = 0, !.successfulCommands = <<>>, !.failures = <<>>,
              !.sends = <<>>, !.saved = <<>>, !.packageJson = ""]

\* saveExecutedCommands: cmd.includes('install') || ' add ' || 'remove' || 'uninstall'
hasDependencyCommands(commands) ==
    \E i \in DOMAIN commands :
        \/ includes(commands[i], <<"i", "n", "s", "t", "a", "l", "l">>)
        \/ includes(commands[i], <<" ", "a", "d", "d", " ">>)
        \/ includes(commands[i], <<"r", "e", "m", "o", "v", "e">>)
        \/ includes(commands[i], <<"u", "n", "i", "n", "s", "t", "a", "l", "l">>)

\* saveExecutedCommands after updateBootstrapScript returned
updateBootstrapScriptReturns(m) ==
    IF hasDependencyCommands(m.saved) THEN [m EXCEPT !.pc = "readFiles"] ELSE callEnds(m)

\* saveExecutedCommands up to its first await: updateBootstrapScript awaits
\* the save of .bootstrap.js unless there is no command
saveExecutedCommands(m, commands) ==
    LET validCommands == validateAndCleanBootstrapCommands(m.commandsHistory \o commands)
        m1 == [m EXCEPT !.commandsHistory = validCommands, !.saved = commands]
    IN  IF validCommands = <<>>
        THEN updateBootstrapScriptReturns(m1)
        ELSE [m1 EXCEPT !.pc = "bootstrap"]

\* executeCommands after its loop over the chunks
executeCommandsEnds(m) ==
    LET Failed(cmd) == cmd \notin Range(m.successfulCommands)
        m1 == IF SelectSeq(m.commands, Failed) # <<>> THEN cmdBroadcast(m, "ERROR") ELSE m
    IN  saveExecutedCommands(m1, m.successfulCommands)

\* the body of the while loop up to its await
sendChunk(m) ==
    [cmdBroadcast(m, "COMMAND_EXECUTING")
        EXCEPT !.pc = "execute", !.sends[m.chunk] = @ + 1]

\* the next turn of the for loop, or the end of it
nextChunk(m) ==
    IF m.chunk < Len(chunksOf(m.commands))
    THEN sendChunk([m EXCEPT !.chunk = @ + 1,
                             !.currentChunk = chunksOf(m.commands)[m.chunk + 1],
                             !.retryCount = 0])
    ELSE executeCommandsEnds(m)

\* the test of the while loop
whileLoop(m) ==
    IF m.currentChunk # <<>> /\ m.retryCount < maxRetries(m)
    THEN sendChunk(m)
    ELSE nextChunk(m)

executeCommands(m, commands, shouldRetry) ==
    LET cmds == sanitizeCommands(commands)
    IN  IF ~ m.sandboxInstanceId \/ cmds = <<>>
        THEN callEnds([m EXCEPT !.kind = "executeCommands", !.shouldRetry = shouldRetry])
        ELSE nextChunk([m EXCEPT !.kind = "executeCommands", !.commands = cmds,
                                 !.shouldRetry = shouldRetry, !.chunk = 0,
                                 !.sends = [i \in DOMAIN chunksOf(cmds) |-> 0]])

\* failedCommands.filter(cmd => cmd.startsWith("bun") || cmd.startsWith("npm")
\*                               || cmd.includes("install"))
isInstallCommand(cmd) ==
    \/ startsWith(cmd, <<"b", "u", "n">>)
    \/ startsWith(cmd, <<"n", "p", "m">>)
    \/ includes(cmd, <<"i", "n", "s", "t", "a", "l", "l">>)

\* the sandbox answered with results: the commands at the positions in ok
\* succeeded, the others failed
commandsExecuted(m, ok) ==
    LET successfulCmds == Pick(m.currentChunk, ok)
        failedCommands == Pick(m.currentChunk, DOMAIN m.currentChunk \ ok)
        m1 == [m EXCEPT !.successfulCommands = @ \o successfulCmds,
                        !.succeeded = @ \cup Range(successfulCmds)]
        m2 == [m1 EXCEPT !.retryCount = @ + 1, !.failures = failedCommands]
    IN  IF failedCommands = <<>> \/ ~ m.shouldRetry
        THEN nextChunk(m1)
        ELSE IF SelectSeq(failedCommands, isInstallCommand) # <<>>
                    /\ m2.retryCount < maxRetries(m2)
             THEN [m2 EXCEPT !.pc = "regenerate"]
             ELSE whileLoop([m2 EXCEPT !.currentChunk = <<>>])

\* generateSetupCommands returned newCommands
alternativesSuggested(m, newCommands) ==
    IF newCommands # <<>>
    THEN whileLoop([cmdBroadcast(m, "COMMAND_EXECUTING")
                        EXCEPT !.currentChunk = SelectSeq(newCommands, looksLikeCommand)])
    ELSE whileLoop([m EXCEPT !.currentChunk = <<>>])

\* updatePackageJson of utils/packageSyncer: updated when the contents differ
updatePackageJson(last, contents) ==
    [updated |-> last # contents, packageJson |-> contents]

\* syncPackageJsonFromSandbox after readFiles returned the file
packageJsonRead(m, contents) ==
    LET u == updatePackageJson(m.lastPackageJson, contents)
    IN  IF ~ u.updated THEN callEnds(m)
        ELSE [m EXCEPT !.lastPackageJson = u.packageJson,
                       !.packageJson = u.packageJson, !.pc = "saveFile"]

\* ... and after saveGeneratedFile returned
packageJsonSaved(m) ==
    callEnds(cmdBroadcast(
        [m EXCEPT !.packageJsonFile = [contents |-> m.packageJson, commit |-> SyncCommit]],
        "FILE_GENERATED"))

\* an invocation starts in the first slot that is free
FreeCall(c) ==
    /\ commandCalls[c].pc = "idle"
    /\ \A d \in Calls : d < c => commandCalls[d].pc # "idle"

ExecuteCommands(c) ==
    /\ FreeCall(c)
    /\ \E commands \in CommandLists, shouldRetry \in BOOLEAN :
            CmdSet(executeCommands(CmdEmit(CmdCur(c), "executeCommands", ""),
                                   commands, shouldRetry))

\* the sandbox returned the results of the chunk
CommandsExecuted(c) ==
    /\ commandCalls[c].pc = "execute"
    /\ \E ok \in Outcomes(Len(commandCalls[c].currentChunk)) :
            CmdSet(commandsExecuted(CmdEmit(CmdCur(c), "executeCommands", "results"), ok))

\* the sandbox answered without results, or success false: executeCommands
\* asks for the status of the instance
CommandsNotExecuted(c) ==
    /\ commandCalls[c].pc = "execute"
    /\ CmdSet([CmdEmit(CmdCur(c), "executeCommands", "failed") EXCEPT !.pc = "status"])

\* healthy: the chunk is given up; not healthy: executeCommands returns
InstanceStatusReturns(c) ==
    /\ commandCalls[c].pc = "status"
    /\ \E isHealthy \in BOOLEAN :
            CmdSet(IF isHealthy
                   THEN nextChunk(CmdEmit(CmdCur(c), "executeCommands", "healthy"))
                   ELSE callEnds(CmdEmit(CmdCur(c), "executeCommands", "unhealthy")))

AlternativesSuggested(c) ==
    /\ commandCalls[c].pc = "regenerate"
    /\ \E newCommands \in Alternatives :
            CmdSet(alternativesSuggested(
                        CmdEmit(CmdCur(c), "executeCommands", "alternatives"), newCommands))

\* an await inside the try of the while loop raised: the chunk is given up
ExecuteCommandsCatch(c) ==
    /\ commandCalls[c].pc \in {"execute", "status", "regenerate"}
    /\ CmdSet(nextChunk(CmdEmit(CmdCur(c), "executeCommands", "error")))

ExecCommands(c) ==
    /\ FreeCall(c)
    /\ \E commands \in CommandLists, shouldSave \in BOOLEAN :
            CmdSet(IF ~ sandboxInstanceId
                   THEN callEnds([CmdEmit(CmdCur(c), "execCommands", "")
                                    EXCEPT !.kind = "execCommands", !.shouldSave = shouldSave])
                   ELSE [CmdEmit(CmdCur(c), "execCommands", "")
                            EXCEPT !.kind = "execCommands", !.commands = commands,
                                   !.shouldSave = shouldSave, !.pc = "execRaw"])

\* the sandbox returned the result of execCommands, whatever it is
ExecCommandsReturns(c) ==
    /\ commandCalls[c].pc = "execRaw"
    /\ \E ok \in Outcomes(Len(commandCalls[c].commands)) :
        LET m == CmdEmit(CmdCur(c), "execCommands", "results")
            m1 == [m EXCEPT !.succeeded = @ \cup Range(Pick(m.commands, ok))]
        IN  CmdSet(IF m.shouldSave
                   THEN saveExecutedCommands(m1, m.commands)
                   ELSE callEnds(m1))

ExecCommandsThrows(c) ==
    /\ commandCalls[c].pc = "execRaw"
    /\ CmdSet(callEnds(CmdEmit(CmdCur(c), "execCommands", "error")))

BootstrapScriptSaved(c) ==
    /\ commandCalls[c].pc = "bootstrap"
    /\ CmdSet(updateBootstrapScriptReturns(CmdEmit(CmdCur(c), "saveExecutedCommands", "ok")))

\* the save of .bootstrap.js raised: saveExecutedCommands ends there
BootstrapScriptSaveThrows(c) ==
    /\ commandCalls[c].pc = "bootstrap"
    /\ CmdSet(callEnds(CmdEmit(CmdCur(c), "saveExecutedCommands", "error")))

PackageJsonRead(c) ==
    /\ commandCalls[c].pc = "readFiles"
    /\ \E contents \in PackageJsonContents :
            CmdSet(packageJsonRead(
                        CmdEmit(CmdCur(c), "syncPackageJsonFromSandbox", "read"), contents))

\* readFiles returned no file, or raised
PackageJsonUnreadable(c) ==
    /\ commandCalls[c].pc = "readFiles"
    /\ CmdSet(callEnds(CmdEmit(CmdCur(c), "syncPackageJsonFromSandbox", "unreadable")))

PackageJsonSaved(c) ==
    /\ commandCalls[c].pc = "saveFile"
    /\ CmdSet(packageJsonSaved(CmdEmit(CmdCur(c), "syncPackageJsonFromSandbox", "saved")))

\* saveGeneratedFile raised: the catch of syncPackageJsonFromSandbox logs it
PackageJsonSaveThrows(c) ==
    /\ commandCalls[c].pc = "saveFile"
    /\ CmdSet(callEnds(CmdEmit(CmdCur(c), "syncPackageJsonFromSandbox", "error")))

CommandStep(c) ==
    \/ ExecuteCommands(c)
    \/ CommandsExecuted(c)
    \/ CommandsNotExecuted(c)
    \/ InstanceStatusReturns(c)
    \/ AlternativesSuggested(c)
    \/ ExecuteCommandsCatch(c)
    \/ ExecCommands(c)
    \/ ExecCommandsReturns(c)
    \/ ExecCommandsThrows(c)
    \/ BootstrapScriptSaved(c)
    \/ BootstrapScriptSaveThrows(c)
    \/ PackageJsonRead(c)
    \/ PackageJsonUnreadable(c)
    \/ PackageJsonSaved(c)
    \/ PackageJsonSaveThrows(c)

(***************************************************************************)
(* updateBlueprint and updateProjectName.  A patch is a function from the  *)
(* keys it names to entries: the typeof of the value, and the value.       *)
(***************************************************************************)
\* the keys updateBlueprint lets through
safeUpdatableFields ==
    {"title", "description", "detailedDescription", "colorPalette", "views",
     "userFlow", "dataFlow", "architecture", "pitfalls", "frameworks",
     "implementationRoadmap"}

\* the blueprint the agent is initialized with, its first phase being p
Blueprint(p) ==
    [k \in safeUpdatableFields \cup {"projectName", "initialPhase"} |->
        IF k = "initialPhase" THEN p
        ELSE IF k = "projectName" THEN <<"a", "p", "p">>
        ELSE "v0"]

\* project names a patch may carry; the last two are not valid
ProjectNames ==
    {<<"m", "y", "_", "a", "p", "-", "2">>, <<"M", "y", "A", "p", "p">>, <<"a", "b">>}

\* /^[a-z0-9-_]{3,50}$/.test(newName)
validProjectName(newName) ==
    /\ Len(newName) >= 3
    /\ Len(newName) <= 50
    /\ \A i \in DOMAIN newName :
            newName[i] \in {"a", "b", "c", "d", "e", "f", "g", "h", "i", "j", "k", "l",
                            "m", "n", "o", "p", "q", "r", "s", "t", "u", "v", "w", "x",
                            "y", "z", "0", "1", "2", "3", "4", "5", "6", "7", "8", "9",
                            "-", "_"}

\* what invocation u may give for key: a value of its own, or undefined;
\* for projectName a name, undefined, or a value that is not a string
PatchEntries(u, key) ==
    IF key = "projectName"
    THEN {[type |-> "string", value |-> n] : n \in ProjectNames}
            \cup {[type |-> "undefined", value |-> <<>>],
                  [type |-> "object", value |-> <<>>]}
    ELSE IF key = "initialPhase"
    THEN {[type |-> "object",
           value |-> [name |-> "Patched", lastPhase |-> TRUE, files |-> u]]}
    ELSE {[type |-> "string", value |-> "v" \o ToString(u)],
          [type |-> "undefined", value |-> ""]}

\* the patches of invocation u: one key (an allow-listed one, projectName,
\* initialPhase or plan), or title and one of the other kinds of key
Patches(u) ==
    UNION ({{[k \in {key} |-> e] : e \in PatchEntries(u, key)} :
                key \in safeUpdatableFields \cup {"projectName", "initialPhase", "plan"}}
            \cup
           {{[k \in {"title", key} |-> IF k = "title" THEN t ELSE e] :
                    t \in PatchEntries(u, "title"), e \in PatchEntries(u, key)} :
                key \in {"projectName", "initialPhase", "plan", "views"}})

\* the locals of an updateBlueprint invocation not yet made
NoUpdate == [pc |-> "idle", patch |-> [k \in {} |-> 0], filtered |-> [k \in {} |-> 0],
             before |-> <<>>, ok |-> TRUE]

\* the loop over Object.entries(patch) without the allow-list
filterPatchUnfiltered(patch) ==
    [key \in {k \in DOMAIN patch : patch[k].type # "undefined"} |-> patch[key].value]

\* the loop over Object.entries(patch)
filterPatch(patch) ==
    [key \in {k \in DOMAIN patch : k \in safeUpdatableFields /\ patch[k].type # "undefined"}
        |-> patch[key].value]

\* { ...target, ...source }
spread(target, source) ==
    [k \in DOMAIN target \cup DOMAIN source |->
        IF k \in DOMAIN source THEN source[k] ELSE target[k]]

BlueprintEvent(op, u, sent) ==
    [NoEvent EXCEPT !.op = op, !.task = u, !.sent = sent]

\* what updateBlueprint does after its filter and the project name: it
\* merges into the blueprint of that moment, broadcasts and returns
mergeAndBroadcast(u, patch, filtered) ==
    /\ blueprint' = spread(blueprint, filtered)
    /\ blueprintUpdates' = [blueprintUpdates EXCEPT ![u] =
            [@ EXCEPT !.pc = "done", !.patch = patch, !.filtered = filtered]]
    /\ event' = BlueprintEvent("updateBlueprint", u, <<"BLUEPRINT_UPDATED">>)
    /\ UNCHANGED storedProjectName

\* what a call to the sandbox or to the database may do: return true,
\* return false, or raise
RenameOutcomes == {"true", "false", "throw"}

\* updateBlueprint is called.  A patch without a string projectName is
\* merged at once.  Else updateProjectName runs to its first await: an
\* invalid name returns false, a valid one is set and sent to the sandbox
\* (when there is one) or else to the database
UpdateBlueprint(u) ==
    /\ blueprintUpdates[u].pc = "idle"
    /\ \A w \in Updates : w < u => blueprintUpdates[w].pc # "idle"
    /\ \E patch \in Patches(u) :
        LET filtered == filterPatch(patch)
            started(at) == [NoUpdate EXCEPT !.pc = at, !.patch = patch,
                                            !.filtered = filtered,
                                            !.before = blueprint["projectName"]]
        IN  IF "projectName" \in DOMAIN patch /\ patch["projectName"].type = "string"
            THEN IF validProjectName(patch["projectName"].value)
                 THEN /\ blueprint' =
                            spread(blueprint, [k \in {"projectName"} |-> patch[k].value])
                      /\ blueprintUpdates' = [blueprintUpdates EXCEPT ![u] =
                            started(IF sandboxInstanceId THEN "sandbox" ELSE "db")]
                      /\ event' = BlueprintEvent("updateProjectName", u, <<>>)
                      /\ UNCHANGED storedProjectName
                 ELSE /\ blueprintUpdates' = [blueprintUpdates EXCEPT ![u] =
                            [started("named") EXCEPT !.ok = FALSE]]
                      /\ event' = [BlueprintEvent("updateProjectName", u, <<>>)
                                        EXCEPT !.ret = "false"]
                      /\ UNCHANGED <<blueprint, storedProjectName>>
            ELSE mergeAndBroadcast(u, patch, filtered)
    /\ UNCHANGED <<phaseVars, debugVars, commandVars, serviceVars, currentAbortController,
                   templateDetailsCache>>

\* the sandbox renamed the project, or it returned false, or the call threw:
\* then ok is false, and the database is updated all the same
SandboxUpdateProjectNameSettles(u) ==
    /\ blueprintUpdates[u].pc = "sandbox"
    /\ \E outcome \in RenameOutcomes :
        /\ blueprintUpdates' = [blueprintUpdates EXCEPT ![u].pc = "db",
                                                        ![u].ok = (outcome = "true")]
        /\ storedProjectName' =
                IF outcome = "true"
                THEN [storedProjectName EXCEPT
                        !.sandbox = blueprintUpdates[u].patch["projectName"].value]
                ELSE storedProjectName
    /\ event' = BlueprintEvent("sandbox.updateProjectName", u, <<>>)
    /\ UNCHANGED <<buildVars, debugVars, commandVars, serviceVars, currentAbortController,
                   templateDetailsCache>>

\* appService.updateApp returned or threw: the new name is broadcast and
\* updateProjectName returns ok
UpdateAppSettles(u) ==
    /\ blueprintUpdates[u].pc = "db"
    /\ \E outcome \in RenameOutcomes :
        LET ok == blueprintUpdates[u].ok /\ outcome = "true"
        IN  /\ blueprintUpdates' = [blueprintUpdates EXCEPT ![u].pc = "named", ![u].ok = ok]
            /\ storedProjectName' =
                    IF outcome = "true"
                    THEN [storedProjectName EXCEPT
                            !.database = blueprintUpdates[u].patch["projectName"].value]
                    ELSE storedProjectName
            /\ event' = [BlueprintEvent("updateApp", u, <<"PROJECT_NAME_UPDATED">>)
                            EXCEPT !.ret = IF ok THEN "true" ELSE "false"]
    /\ UNCHANGED <<buildVars, debugVars, commandVars, serviceVars, currentAbortController,
                   templateDetailsCache>>

\* updateBlueprint resumes after updateProjectName
UpdateProjectNameReturns(u) ==
    /\ blueprintUpdates[u].pc = "named"
    /\ mergeAndBroadcast(u, blueprintUpdates[u].patch, blueprintUpdates[u].filtered)
    /\ UNCHANGED <<phaseVars, debugVars, commandVars, serviceVars, currentAbortController,
                   templateDetailsCache>>

BlueprintStep(u) ==
    \/ UpdateBlueprint(u)
    \/ SandboxUpdateProjectNameSettles(u)
    \/ UpdateAppSettles(u)
    \/ UpdateProjectNameReturns(u)

(***************************************************************************)
(* The conversation histories: getConversationState, setConversationState, *)
(* addConversationMessage and clearConversation.  A message is its         *)
(* conversationId and its content; a row that is absent, or holds "[]" or  *)
(* text that is not a JSON array, reads as the empty history.              *)
(***************************************************************************)
Message(id, content) == [conversationId |-> id, content |-> content]

Messages == {Message(id, content) : id \in ConversationIds, content \in {"first", "second"}}

\* histories found in storage when the object starts: none, written by
\* addConversationMessage, and written with an id twice (by a state that
\* processUserMessage returned, or kept in the agent's state)
StoredHistories ==
    {<<>>,
     <<Message(1, "first")>>,
     <<Message(2, "first"), Message(1, "first")>>,
     <<Message(1, "first"), Message(2, "first"), Message(1, "second")>>}

NoConversationCall ==
    [op |-> "none", message |-> Message(0, ""), saved |-> {},
     result |-> [runningHistory |-> <<>>, fullHistory |-> <<>>]]

\* messages.filter with the set of ids seen: the first message of each id
RECURSIVE deduplicateFrom(_, _)
deduplicateFrom(messages, seen) ==
    IF messages = <<>> THEN <<>>
    ELSE IF Head(messages).conversationId \in seen
         THEN deduplicateFrom(Tail(messages), seen)
         ELSE <<Head(messages)>>
                \o deduplicateFrom(Tail(messages), seen \cup {Head(messages).conversationId})

deduplicateMessages(messages) == deduplicateFrom(messages, {})

\* getConversationState, which falls back on the history of the other table
getConversationStateFromOtherTable ==
    [runningHistory |-> deduplicateMessages(
        IF compact_conversations = <<>> THEN full_conversations ELSE compact_conversations),
     fullHistory |-> deduplicateMessages(
        IF full_conversations = <<>> THEN compact_conversations ELSE full_conversations)]

\* getConversationState(): each history is read from its table, is
\* state.conversationMessages when that is empty, and is deduplicated
getConversationState ==
    LET currentConversationMessages == currentConversation
        fullHistory == IF full_conversations = <<>>
                       THEN currentConversationMessages ELSE full_conversations
        runningHistory == IF compact_conversations = <<>>
                          THEN currentConversationMessages ELSE compact_conversations
    IN  [runningHistory |-> deduplicateMessages(runningHistory),
         fullHistory |-> deduplicateMessages(fullHistory)]

\* one history of addConversationMessage, were it to push in every case
addToHistoryPushing(history, message) == Append(history, message)

\* one history of addConversationMessage: push, or map over the history
addToHistory(history, message) ==
    IF \A i \in DOMAIN history : history[i].conversationId # message.conversationId
    THEN Append(history, message)
    ELSE [i \in DOMAIN history |->
            IF history[i].conversationId = message.conversationId
            THEN message ELSE history[i]]

\* setConversationState: the two INSERT OR REPLACE statements, compact
\* first; when one throws, the rest is skipped and the error is logged
setConversationState(conversations, saved) ==
    /\ compact_conversations' =
            IF "compact" \in saved THEN conversations.runningHistory
            ELSE compact_conversations
    /\ full_conversations' =
            IF "full" \in saved THEN conversations.fullHistory ELSE full_conversations

\* the reads of the agent: the state is returned and nothing changes
GetConversationState ==
    /\ conversationCall' = [NoConversationCall EXCEPT
            !.op = "getConversationState", !.result = getConversationState]
    /\ UNCHANGED <<currentConversation, full_conversations, compact_conversations>>
    /\ UNCHANGED <<agentVars, outerVars, gitVars, rateLimitVars, exportVars>>

\* addConversationMessage(message); both statements run, or the first
\* throws, or the second does
AddConversationMessage ==
    \E message \in Messages, saved \in {{"compact", "full"}, {"compact"}, {}} :
        LET conversationState == getConversationState
        IN  /\ setConversationState(
                    [runningHistory |->
                        addToHistory(conversationState.runningHistory, message),
                     fullHistory |->
                        addToHistory(conversationState.fullHistory, message)],
                    saved)
            /\ conversationCall' = [NoConversationCall EXCEPT
                    !.op = "addConversationMessage", !.message = message,
                    !.saved = saved]
            /\ UNCHANGED currentConversation
            /\ UNCHANGED <<agentVars, outerVars, gitVars, rateLimitVars, exportVars>>

\* clearConversation(): the history of the agent's state alone is emptied
ClearConversation ==
    /\ currentConversation # <<>>
    /\ currentConversation' = <<>>
    /\ conversationCall' = [NoConversationCall EXCEPT !.op = "clearConversation"]
    /\ UNCHANGED <<full_conversations, compact_conversations>>
    /\ UNCHANGED <<agentVars, outerVars, gitVars, rateLimitVars, exportVars>>

(***************************************************************************)
(* The versioned workspace: GitVersionControl over the git library.  The   *)
(* repository holds commits (a commit's oid is its place in the sequence), *)
(* the branch main (0 before the first commit), HEAD (0 while it is the    *)
(* symbolic ref to main, else the oid written into it), the index and the  *)
(* working files.                                                          *)
(***************************************************************************)
GitPaths == {"a", "b"}

FileContents == {"x", "y"}

\* a path that is not there
Absent == ""

EmptyTree == [path \in GitPaths |-> Absent]

FileSnapshot(path, content) == [filePath |-> path, fileContents |-> content]

\* the arguments of stage and commit: no file, the file a, or the file a
\* and then a file b that has one content
FileLists ==
    {<<>>}
        \cup {<<FileSnapshot("a", c)>> : c \in FileContents}
        \cup {<<FileSnapshot("a", c), FileSnapshot("b", "x")>> : c \in FileContents}

Oids(g) == 1..Len(g.commits)

\* git.resolveRef HEAD: 0 when it cannot be resolved
resolveHEAD(g) == IF g.HEAD # 0 THEN g.HEAD ELSE g.main

\* the tree of the commit HEAD resolves to, the empty tree before the first commit
HeadTree(g) ==
    IF resolveHEAD(g) = 0 THEN EmptyTree ELSE g.commits[resolveHEAD(g)].tree

\* git.statusMatrix: a row [filepath, HEAD, WORKDIR, STAGE] for each path
\* that is in one of the three
statusMatrix(g) ==
    {<<path,
       IF HeadTree(g)[path] # Absent THEN 1 ELSE 0,
       IF g.workdir[path] = Absent THEN 0
       ELSE IF g.workdir[path] = HeadTree(g)[path] THEN 1 ELSE 2,
       IF g.index[path] = Absent THEN 0
       ELSE IF g.index[path] = HeadTree(g)[path] THEN 1
       ELSE IF g.index[path] = g.workdir[path] THEN 2 ELSE 3>> :
        path \in {p \in GitPaths :
                    \/ HeadTree(g)[p] # Absent
                    \/ g.workdir[p] # Absent
                    \/ g.index[p] # Absent}}

\* what can go wrong in a call: the file at which stage fails (0: none) and
\* whether its write or its git.add fails, the status read, git.commit
NoFault == [stageAt |-> 0, stageIn |-> "writeFile", status |-> FALSE, commit |-> FALSE]

\* at most one of them in a call
Faults(files) ==
    {NoFault, [NoFault EXCEPT !.status = TRUE], [NoFault EXCEPT !.commit = TRUE]}
        \cup {[NoFault EXCEPT !.stageAt = i, !.stageIn = step] :
                i \in 1..Len(files), step \in {"writeFile", "add"}}

\* stage, from file i on: fs.writeFile and git.add for each file, the first
\* failure is thrown on
RECURSIVE stageFrom(_, _, _, _)
stageFrom(g, files, i, fault) ==
    IF i > Len(files) THEN [git |-> g, threw |-> FALSE]
    ELSE LET file == files[i]
             written == [g EXCEPT !.workdir[file.filePath] = file.fileContents]
             added == [written EXCEPT !.index[file.filePath] = file.fileContents]
         IN  IF fault.stageAt = i
             THEN [git |-> IF fault.stageIn = "add" THEN written ELSE g,
                   threw |-> TRUE]
             ELSE stageFrom(added, files, i + 1, fault)

stage(g, files, fault) == stageFrom(g, files, 1, fault)

\* the test of commit on the rows of the status matrix: row[1] !== row[2]
hasChanges(status) == \E row \in status : row[2] # row[3]

\* git.commit: a commit of the index whose parent is the commit HEAD
\* resolves to.  The branch HEAD names moves to it; on a HEAD that holds an
\* oid no branch moves, and HEAD follows or stays with the library's version
gitCommit(g, follows) ==
    LET oid == Len(g.commits) + 1
        written == [g EXCEPT !.commits =
                        Append(@, [parent |-> resolveHEAD(g), tree |-> g.index])]
    IN  IF g.HEAD = 0 THEN [written EXCEPT !.main = oid]
        ELSE IF follows THEN [written EXCEPT !.HEAD = oid]
        ELSE written

Returned(value) == [kind |-> "returned", value |-> value]

Threw == [kind |-> "threw", value |-> 0]

\* commit returned null
Null == 0

\* commit(files, message): the repository after it and its result
commit(g, files, fault, follows) ==
    LET staged == IF Len(files) > 0 THEN stage(g, files, fault)
                  ELSE [git |-> g, threw |-> FALSE]
        changes == IF fault.status THEN TRUE
                   ELSE hasChanges(statusMatrix(staged.git))
        failed == IF fault.status THEN "status" ELSE ""
    IN  IF staged.threw
        THEN [git |-> staged.git, result |-> Threw, failed |-> "stage"]
        ELSE IF ~ changes
        THEN [git |-> staged.git, result |-> Returned(Null), failed |-> failed]
        ELSE IF fault.commit
        THEN [git |-> staged.git, result |-> Threw, failed |-> "commit"]
        ELSE [git |-> gitCommit(staged.git, follows),
              result |-> Returned(Len(g.commits) + 1), failed |-> failed]

\* git.log from a commit: the commit and its ancestors, at most depth of them
RECURSIVE walk(_, _, _)
walk(g, oid, depth) ==
    IF oid = 0 \/ depth = 0 THEN <<>>
    ELSE <<oid>> \o walk(g, g.commits[oid].parent, depth - 1)

\* log(limit): git.log of the ref main, an empty list when it throws
log(g, limit, fails) ==
    IF fails \/ g.main = 0 THEN <<>> ELSE walk(g, g.main, limit)

\* git.checkout of a commit with force: the paths of the index and of the
\* commit are written to the index and the working files
checkout(g, oid) ==
    LET tree == g.commits[oid].tree
        tracked(path) == g.index[path] # Absent \/ tree[path] # Absent
    IN  [g EXCEPT
            !.index = [path \in GitPaths |->
                        IF tracked(path) THEN tree[path] ELSE @[path]],
            !.workdir = [path \in GitPaths |->
                        IF tracked(path) THEN tree[path] ELSE @[path]],
            !.HEAD = oid]

\* reset(ref, options) on the oid of a commit
reset(g, oid, hard) ==
    LET moved == [g EXCEPT !.HEAD = oid]
    IN  IF hard THEN checkout(moved, oid) ELSE moved

NoGitCall ==
    [op |-> "", files |-> <<>>, limit |-> 0, ref |-> 0, result |-> Returned(Null),
     log |-> <<>>, failed |-> "", calls |-> 0]

\* the calls are told apart by their parity
called(op) == [NoGitCall EXCEPT !.op = op, !.calls = 1 - gitCall.calls]

Commit ==
    \E files \in FileLists : \E fault \in Faults(files),
                              follows \in IF workspace.HEAD = 0 THEN {FALSE} ELSE BOOLEAN :
        LET done == commit(workspace, files, fault, follows)
        IN  /\ Len(done.git.commits) <= MaxCommits
            /\ workspace' = done.git
            /\ gitCall' = [called("commit") EXCEPT
                    !.files = files, !.result = done.result,
                    !.failed = done.failed]
            /\ UNCHANGED <<agentVars, outerVars, conversationVars, rateLimitVars, exportVars>>

Log ==
    \E limit \in 0..MaxCommits, fails \in BOOLEAN :
        /\ gitCall' = [called("log") EXCEPT
                !.limit = limit, !.log = log(workspace, limit, fails),
                !.failed = IF fails \/ workspace.main = 0 THEN "log" ELSE ""]
        /\ UNCHANGED workspace
        /\ UNCHANGED <<agentVars, outerVars, conversationVars, rateLimitVars, exportVars>>

Reset ==
    \E oid \in Oids(workspace), hard \in BOOLEAN :
        /\ workspace' = reset(workspace, oid, hard)
        /\ gitCall' = [called("reset") EXCEPT !.ref = oid]
        /\ UNCHANGED <<agentVars, outerVars, conversationVars, rateLimitVars, exportVars>>

\* the repository after init()
FreshGit ==
    /\ workspace = [commits |-> <<>>, main |-> 0, HEAD |-> 0,
                    index |-> EmptyTree, workdir |-> EmptyTree]
    /\ gitCall = NoGitCall

(***************************************************************************)
(* The in-memory rate limit stores.  Date.now() is clock seconds after the *)
(* start, in milliseconds; a call runs without an await, so the calls of   *)
(* concurrent request handlers run one after the other.  A config field    *)
(* that is not set is 0; the fields that are set are positive.             *)
(***************************************************************************)
RateLimitKeys == {"u1", "u2"}

\* the times at which calls are made: the first seconds, and the seconds
\* after the per-key store is due for a cleanup
CallTimes == 0..MaxClock \cup {CleanupInterval + s : s \in 1..MaxClock}

\* the configs of the calls, the same for every call of a run
RateLimitConfigs ==
    {[limit |-> 1, period |-> 1, bucketSize |-> 2, burst |-> 0, burstWindow |-> 0],
     [limit |-> 2, period |-> 1, bucketSize |-> 2, burst |-> 0, burstWindow |-> 0],
     [limit |-> 2, period |-> 3, bucketSize |-> 1, burst |-> 1, burstWindow |-> 1],
     [limit |-> 2, period |-> CleanupInterval + 1, bucketSize |-> 0, burst |-> 0,
      burstWindow |-> 0]}

Now == clock * 1000

Max(a, b) == IF a >= b THEN a ELSE b

\* x ?? d and x || d on a number that is positive when it is set
OrDefault(x, d) == IF x = 0 THEN d ELSE x

\* Math.floor(time / bucketSizeMs) * bucketSizeMs
bucketTimestamp(time, bucketSizeMs) == (time \div bucketSizeMs) * bucketSizeMs

\* the bucket of now alone
generateBucketKeysOfNow(key, now, windowMs, bucketSizeMs) ==
    {<<key, bucketTimestamp(now, bucketSizeMs)>>}

\* generateBucketKeys: the buckets from the one that holds now - windowMs to now
generateBucketKeys(key, now, windowMs, bucketSizeMs) ==
    LET first == bucketTimestamp(now - windowMs, bucketSizeMs)
    IN  {<<key, first + i * bucketSizeMs>> : i \in 0..((now - first) \div bucketSizeMs)}

RECURSIVE Sum(_, _)
Sum(f, S) ==
    IF S = {} THEN 0
    ELSE LET x == CHOOSE y \in S : TRUE IN f[x] + Sum(f, S \ {x})

\* the reduce of increment over the bucket keys: the counts of the buckets
\* that are there and have not expired
countOf(buckets, bucketKeys, now) ==
    Sum([k \in DOMAIN buckets |-> buckets[k].count],
        {k \in bucketKeys \cap DOMAIN buckets : buckets[k].expiresAt > now})

\* InMemoryRateLimitStore.cleanup
cleanupExpired(buckets, now) ==
    [k \in {b \in DOMAIN buckets : ~ (buckets[b].expiresAt < now)} |-> buckets[k]]

Put(f, k, v) == [x \in DOMAIN f \cup {k} |-> IF x = k THEN v ELSE f[x]]

Rejected == [success |-> FALSE, remainingLimit |-> 0]

\* the result of an increment that did not count itself
AcceptedBeforeCounting(remainingLimit) ==
    [success |-> TRUE, remainingLimit |-> remainingLimit + 1]

\* the result of an increment that was counted
Accepted(remainingLimit) == [success |-> TRUE, remainingLimit |-> remainingLimit]

\* InMemoryRateLimitStore.increment(key, config): the store after it and its result
increment(buckets, key, cfg, now, sweep) ==
    LET swept == IF sweep THEN cleanupExpired(buckets, now) ELSE buckets
        bucketSize == OrDefault(cfg.bucketSize, DefaultBucketSize) * 1000
        burstWindow == OrDefault(cfg.burstWindow, DefaultBurstWindow) * 1000
        mainWindow == cfg.period * 1000
        currentBucketTimestamp == bucketTimestamp(now, bucketSize)
        mainBuckets == generateBucketKeys(key, now, mainWindow, bucketSize)
        burstBuckets == IF cfg.burst # 0
                        THEN generateBucketKeys(key, now, burstWindow, bucketSize)
                        ELSE {}
        mainCount == countOf(swept, mainBuckets, now)
        burstCount == countOf(swept, burstBuckets, now)
        currentBucketKey == <<key, currentBucketTimestamp>>
        maxTtlSeconds == Max(cfg.period, OrDefault(cfg.burstWindow, DefaultBurstWindow))
                            + OrDefault(cfg.bucketSize, DefaultBucketSize)
        expiresAt == now + maxTtlSeconds * 1000
    IN  IF mainCount >= cfg.limit THEN [store |-> swept, result |-> Rejected]
        ELSE IF cfg.burst # 0 /\ burstCount >= cfg.burst
        THEN [store |-> swept, result |-> Rejected]
        ELSE [store |->
                IF currentBucketKey \in DOMAIN swept
                    /\ swept[currentBucketKey].expiresAt > now
                THEN [swept EXCEPT ![currentBucketKey] =
                        [count |-> @.count + 1, expiresAt |-> expiresAt]]
                ELSE Put(swept, currentBucketKey, [count |-> 1, expiresAt |-> expiresAt]),
              result |-> Accepted(Max(0, cfg.limit - mainCount - 1))]

\* InMemoryDORateLimitStore.getState
getState(all, key, now) ==
    IF key \in DOMAIN all THEN all
    ELSE Put(all, key, [buckets |-> <<>>, lastCleanup |-> now])

\* InMemoryDORateLimitStore.cleanup
cleanup(state, now, maxWindow) ==
    [buckets |-> [k \in {b \in DOMAIN state.buckets :
                            ~ (state.buckets[b].timestamp < now - maxWindow)} |->
                    state.buckets[k]],
     lastCleanup |-> now]

\* getBucketsInWindow and the reduce over it: the counts of the buckets of
\* the window that are there
countInWindow(state, key, now, windowMs, bucketSizeMs) ==
    Sum([k \in DOMAIN state.buckets |-> state.buckets[k].count],
        generateBucketKeys(key, now, windowMs, bucketSizeMs) \cap DOMAIN state.buckets)

\* InMemoryDORateLimitStore.increment(key, config): the stores after it and its result
incrementDO(all, key, cfg, now) ==
    LET created == getState(all, key, now)
        bucketSize == OrDefault(cfg.bucketSize, DefaultBucketSize) * 1000
        burstWindow == OrDefault(cfg.burstWindow, DefaultBurstWindow) * 1000
        mainWindow == cfg.period * 1000
        bucketKey == <<key, bucketTimestamp(now, bucketSize)>>
        state == IF now - created[key].lastCleanup > CleanupInterval * 1000
                 THEN cleanup(created[key], now, Max(mainWindow, burstWindow))
                 ELSE created[key]
        mainCount == countInWindow(state, key, now, mainWindow, bucketSize)
        burstCount == IF cfg.burst # 0
                      THEN countInWindow(state, key, now, burstWindow, bucketSize)
                      ELSE 0
        newCount == (IF bucketKey \in DOMAIN state.buckets
                     THEN state.buckets[bucketKey].count ELSE 0) + 1
        kept == [created EXCEPT ![key] = state]
    IN  IF mainCount >= cfg.limit THEN [stores |-> kept, result |-> Rejected]
        ELSE IF cfg.burst # 0 /\ burstCount >= cfg.burst
        THEN [stores |-> kept, result |-> Rejected]
        ELSE [stores |->
                [kept EXCEPT ![key].buckets =
                    Put(@, bucketKey, [count |-> newCount, timestamp |-> now])],
              result |-> Accepted(cfg.limit - mainCount - 1)]

NoRateLimitCall == [class |-> "", key |-> "", result |-> Rejected, calls |-> 0]

\* the successful increments which a window of a later call can still hold
Recent(times, cfg, now) ==
    LET reach == (Max(cfg.period, OrDefault(cfg.burstWindow, DefaultBurstWindow))
                    + OrDefault(cfg.bucketSize, DefaultBucketSize)) * 1000
    IN  SelectSeq(times, LAMBDA t : t >= now - reach)

Granted(class, key, result) ==
    granted' = [granted EXCEPT ![class][key] =
                    Recent(IF result.success THEN Append(@, Now) ELSE @,
                           rateLimitConfig, Now)]

\* a process limits its requests with one of the two stores
Uses(class) == rateLimitCall.class \in {"", class}

Increment ==
    \E key \in RateLimitKeys, sweep \in BOOLEAN :
        LET done == increment(store, key, rateLimitConfig, Now, sweep)
        IN  /\ Uses("InMemoryRateLimitStore")
            /\ store' = done.store
            /\ Granted("InMemoryRateLimitStore", key, done.result)
            /\ rateLimitCall' = [class |-> "InMemoryRateLimitStore", key |-> key,
                                 result |-> done.result,
                                 calls |-> 1 - rateLimitCall.calls]
            /\ UNCHANGED <<stores, clock, rateLimitConfig>>
            /\ UNCHANGED <<agentVars, outerVars, conversationVars, gitVars, exportVars>>

IncrementDO ==
    \E key \in RateLimitKeys :
        LET done == incrementDO(stores, key, rateLimitConfig, Now)
        IN  /\ Uses("InMemoryDORateLimitStore")
            /\ stores' = done.stores
            /\ Granted("InMemoryDORateLimitStore", key, done.result)
            /\ rateLimitCall' = [class |-> "InMemoryDORateLimitStore", key |-> key,
                                 result |-> done.result,
                                 calls |-> 1 - rateLimitCall.calls]
            /\ UNCHANGED <<store, clock, rateLimitConfig>>
            /\ UNCHANGED <<agentVars, outerVars, conversationVars, gitVars, exportVars>>

\* time passes between the calls
ClockAdvances ==
    /\ \E time \in CallTimes : time > clock /\ clock' = time
    /\ UNCHANGED <<store, stores, granted, rateLimitCall, rateLimitConfig>>
    /\ UNCHANGED <<agentVars, outerVars, conversationVars, gitVars, exportVars>>

\* the stores of a process that has served no request
FreshRateLimit ==
    /\ clock = 0
    /\ store = <<>>
    /\ stores = <<>>
    /\ granted = [class \in {"InMemoryRateLimitStore", "InMemoryDORateLimitStore"} |->
                    [key \in RateLimitKeys |-> <<>>]]
    /\ rateLimitCall = NoRateLimitCall
    /\ rateLimitConfig = CHOOSE cfg \in RateLimitConfigs : cfg.limit = 1

(***************************************************************************)
(* The GitHub export: forcePushToGitHub on the commits git.log returned,   *)
(* newest first.  A step runs from one await to the next; the uploads of   *)
(* the blobs of a commit are in flight together and settle in any order.   *)
(***************************************************************************)
CommitMessages == {"feat", "docs"}

\* the files walkGitTree finds in the tree of a commit
TreeFiles ==
    {<<>>,
     <<[path |-> "a", content |-> "x"]>>,
     <<[path |-> "a", content |-> "y"]>>,
     <<[path |-> "a", content |-> "x"], [path |-> "b", content |-> "x"]>>,
     <<[path |-> "a", content |-> "x"], [path |-> "b", content |-> "y"]>>}

\* the commits of git.log for a history of n commits, the newest first and
\* one second apart
LocalLogs(n) ==
    {[k \in 1..n |-> [message |-> messages[k], files |-> files[k],
                      timestamp |-> 100 + n - k]] :
        messages \in [1..n -> CommitMessages], files \in [1..n -> TreeFiles]}

\* [...commits].reverse()
RECURSIVE reverse(_)
reverse(s) == IF s = <<>> THEN <<>> ELSE Append(reverse(Tail(s)), Head(s))

\* hashContent: the SHA-256 of the content, in hex
hashContent(content) == <<"sha256", content>>

\* the sha GitHub gives the blob of a content
BlobSha(content) == <<"blob", content>>

\* new Date(seconds * 1000).toISOString()
toISOString(ms) == <<"ISO", ms>>

NoExport ==
    [pc |-> "idle", reversedCommits |-> <<>>, i |-> 0, file |-> 0,
     blobCache |-> <<>>, fileToGitHubBlob |-> <<>>, inFlight |-> {},
     rejected |-> FALSE, tree |-> <<>>, parentSha |-> 0, success |-> FALSE]

NoRemote == [createBlob |-> <<>>, commits |-> <<>>, ref |-> 0, updateRef |-> 0]

\* the end of the loop over the commits: the throw when no commit was
\* created, else the call of updateRef
afterCommits(r) ==
    IF r.parentSha = 0 THEN [r EXCEPT !.pc = "failed"]
    ELSE [r EXCEPT !.pc = "updateRef"]

\* the loop over the commits at commit i: the call of walkGitTree, or its end
forCommit(r, i) ==
    IF i <= Len(r.reversedCommits)
    THEN [r EXCEPT !.pc = "walkGitTree", !.i = i]
    ELSE afterCommits([r EXCEPT !.i = i])

\* the parents of the commit to create, were every commit a root
parentsNone(parentSha) == <<>>

\* parents: parentSha ? [parentSha] : []
parents(parentSha) == IF parentSha # 0 THEN <<parentSha>> ELSE <<>>

\* the commit createCommit is called with
GitHubCommit(localCommit, tree, parentSha) ==
    [message |-> localCommit.message,
     tree |-> tree,
     parents |-> parents(parentSha),
     date |-> toISOString(localCommit.timestamp * 1000)]

\* exportToGitHub: git.log returned the commits and forcePushToGitHub is
\* called, which awaits repos.get
ExportToGitHub ==
    /\ exportRun.pc = "idle"
    /\ \E n \in 0..MaxLocalCommits : \E commits \in LocalLogs(n) :
            exportRun' = [NoExport EXCEPT !.pc = "repos.get",
                                          !.reversedCommits = reverse(commits)]
    /\ UNCHANGED github
    /\ UNCHANGED <<agentVars, outerVars, conversationVars, gitVars, rateLimitVars>>

ReposGetReturns ==
    /\ exportRun.pc = "repos.get"
    /\ exportRun' = forCommit(exportRun, 1)
    /\ UNCHANGED github
    /\ UNCHANGED <<agentVars, outerVars, conversationVars, gitVars, rateLimitVars>>

\* walkGitTree returned the files of the commit: a commit with no files is
\* skipped
WalkGitTreeReturns ==
    /\ exportRun.pc = "walkGitTree"
    /\ LET files == exportRun.reversedCommits[exportRun.i].files
       IN  exportRun' =
                IF Len(files) = 0 THEN forCommit(exportRun, exportRun.i + 1)
                ELSE [exportRun EXCEPT !.pc = "hashContent", !.file = 1,
                                       !.fileToGitHubBlob = <<>>]
    /\ UNCHANGED github
    /\ UNCHANGED <<agentVars, outerVars, conversationVars, gitVars, rateLimitVars>>

\* hashContent returned for a file: its blob is taken from the cache, or
\* createBlob is called for it
HashContentReturns ==
    /\ exportRun.pc = "hashContent"
    /\ LET files == exportRun.reversedCommits[exportRun.i].files
           file == files[exportRun.file]
           contentHash == hashContent(file.content)
           hit == contentHash \in DOMAIN exportRun.blobCache
           next == IF exportRun.file = Len(files)
                   THEN [exportRun EXCEPT !.pc = "Promise.all"]
                   ELSE [exportRun EXCEPT !.file = @ + 1]
       IN  /\ exportRun' =
                IF hit
                THEN [next EXCEPT !.fileToGitHubBlob =
                        Put(@, file.path, exportRun.blobCache[contentHash])]
                ELSE [next EXCEPT !.inFlight = @ \cup {exportRun.file}]
           /\ github' = IF hit THEN github
                        ELSE [github EXCEPT !.createBlob = Append(@, file.content)]
    /\ UNCHANGED <<agentVars, outerVars, conversationVars, gitVars, rateLimitVars>>

\* a createBlob in flight returned its blob
CreateBlobReturns ==
    \E f \in exportRun.inFlight :
        LET file == exportRun.reversedCommits[exportRun.i].files[f]
        IN  /\ exportRun' = [exportRun EXCEPT
                    !.blobCache = Put(@, hashContent(file.content), BlobSha(file.content)),
                    !.fileToGitHubBlob = Put(@, file.path, BlobSha(file.content)),
                    !.inFlight = @ \ {f}]
            /\ UNCHANGED github
            /\ UNCHANGED <<agentVars, outerVars, conversationVars, gitVars, rateLimitVars>>

\* a createBlob in flight failed
CreateBlobThrows ==
    \E f \in exportRun.inFlight :
        /\ exportRun' = [exportRun EXCEPT !.inFlight = @ \ {f}, !.rejected = TRUE]
        /\ UNCHANGED github
        /\ UNCHANGED <<agentVars, outerVars, conversationVars, gitVars, rateLimitVars>>

\* await Promise.all(blobCreationPromises): it throws when a createBlob
\* failed, and when all returned createTree is called
PromiseAllSettles ==
    /\ exportRun.pc = "Promise.all"
    /\ exportRun.rejected \/ exportRun.inFlight = {}
    /\ exportRun' =
            IF exportRun.rejected THEN [exportRun EXCEPT !.pc = "failed"]
            ELSE [exportRun EXCEPT !.pc = "createTree",
                                   !.tree = exportRun.fileToGitHubBlob]
    /\ UNCHANGED github
    /\ UNCHANGED <<agentVars, outerVars, conversationVars, gitVars, rateLimitVars>>

\* createTree returned and createCommit is called
CreateTreeReturns ==
    /\ exportRun.pc = "createTree"
    /\ exportRun' = [exportRun EXCEPT !.pc = "createCommit"]
    /\ UNCHANGED github
    /\ UNCHANGED <<agentVars, outerVars, conversationVars, gitVars, rateLimitVars>>

\* createCommit returned the new commit, whose sha is its place among the
\* commits created
CreateCommitReturns ==
    /\ exportRun.pc = "createCommit"
    /\ LET localCommit == exportRun.reversedCommits[exportRun.i]
           sha == Len(github.commits) + 1
       IN  /\ github' = [github EXCEPT !.commits =
                    Append(@, GitHubCommit(localCommit, exportRun.tree, exportRun.parentSha))]
           /\ exportRun' = forCommit([exportRun EXCEPT !.parentSha = sha],
                                     exportRun.i + 1)
    /\ UNCHANGED <<agentVars, outerVars, conversationVars, gitVars, rateLimitVars>>

\* updateRef with force returned
UpdateRefReturns ==
    /\ exportRun.pc = "updateRef"
    /\ github' = [github EXCEPT !.ref = exportRun.parentSha, !.updateRef = @ + 1]
    /\ exportRun' = [exportRun EXCEPT !.pc = "done", !.success = TRUE]
    /\ UNCHANGED <<agentVars, outerVars, conversationVars, gitVars, rateLimitVars>>

\* a call of the GitHub API, or walkGitTree, throws: forcePushToGitHub
\* throws on and exportToGitHub returns success: false
ExportThrows ==
    /\ exportRun.pc \in {"repos.get", "walkGitTree", "createTree", "createCommit",
                         "updateRef"}
    /\ exportRun' = [exportRun EXCEPT !.pc = "failed"]
    /\ UNCHANGED github
    /\ UNCHANGED <<agentVars, outerVars, conversationVars, gitVars, rateLimitVars>>

\* no export was started
FreshExport ==
    /\ exportRun = NoExport
    /\ github = NoRemote

(***************************************************************************)
(* pushToGitHub of the agent.  The export itself (GitHubService) is what   *)
(* the section above models; here it returns a result or raises.           *)
(***************************************************************************)
\* options.token and options.username: "" when absent
PushOptions == [token : {"", "token-1", "token-2"}, username : {"", "octocat"}]

\* githubTokenCache = null
NoGitHubToken == [token |-> "", username |-> ""]

NoPush == [pc |-> "idle", options |-> [token |-> "", username |-> ""], sent |-> <<>>,
           success |-> FALSE, before |-> NoGitHubToken]

\* setGitHubToken(token, username), the expiry aside
setGitHubToken(token, username) == [token |-> token, username |-> username]

\* the catch of pushToGitHub
pushFailed(r) ==
    [r EXCEPT !.sent = Append(@, "GITHUB_EXPORT_ERROR"), !.success = FALSE,
              !.pc = "returned"]

\* pushToGitHub is called and awaits exportGitObjects
PushToGitHub ==
    /\ pushRun.pc \in {"idle", "returned"}
    /\ \E options \in PushOptions :
        pushRun' = [NoPush EXCEPT !.pc = "exportGitObjects", !.options = options,
                                  !.sent = <<"GITHUB_EXPORT_STARTED",
                                             "GITHUB_EXPORT_PROGRESS">>,
                                  !.before = githubTokenCache]
    /\ UNCHANGED githubTokenCache
    /\ UNCHANGED <<agentVars, conversationVars, gitVars, rateLimitVars, exportVars,
                   localSandboxVars, managerVars>>

\* exportGitObjects returned: getAppDetails is awaited
ExportGitObjectsReturns ==
    /\ pushRun.pc = "exportGitObjects"
    /\ pushRun' = [pushRun EXCEPT !.pc = "getAppDetails"]
    /\ UNCHANGED githubTokenCache
    /\ UNCHANGED <<agentVars, conversationVars, gitVars, rateLimitVars, exportVars,
                   localSandboxVars, managerVars>>

\* getAppDetails returned, or raised and the current time is taken: the
\* export is awaited
GetAppDetailsSettles ==
    /\ pushRun.pc = "getAppDetails"
    /\ pushRun' = [pushRun EXCEPT !.pc = "exportToGitHub",
                                  !.sent = Append(@, "GITHUB_EXPORT_PROGRESS")]
    /\ UNCHANGED githubTokenCache
    /\ UNCHANGED <<agentVars, conversationVars, gitVars, rateLimitVars, exportVars,
                   localSandboxVars, managerVars>>

\* GitHubService.exportToGitHub returned: a failure is raised, a success
\* caches the token when token and username are given, and the update of
\* the database is awaited
ExportToGitHubReturns ==
    /\ pushRun.pc = "exportToGitHub"
    /\ \E success \in BOOLEAN :
        IF ~ success
        THEN /\ pushRun' = pushFailed(pushRun)
             /\ UNCHANGED githubTokenCache
        ELSE /\ githubTokenCache' =
                    IF pushRun.options.token # "" /\ pushRun.options.username # ""
                    THEN setGitHubToken(pushRun.options.token, pushRun.options.username)
                    ELSE githubTokenCache
             /\ pushRun' = [pushRun EXCEPT !.pc = "updateGitHubRepository",
                                           !.sent = Append(@, "GITHUB_EXPORT_PROGRESS")]
    /\ UNCHANGED <<agentVars, conversationVars, gitVars, rateLimitVars, exportVars,
                   localSandboxVars, managerVars>>

\* updateGitHubRepository returned, whatever its result: the export is
\* complete
UpdateGitHubRepositoryReturns ==
    /\ pushRun.pc = "updateGitHubRepository"
    /\ pushRun' = [pushRun EXCEPT !.pc = "returned", !.success = TRUE,
                                  !.sent = Append(@, "GITHUB_EXPORT_COMPLETED")]
    /\ UNCHANGED githubTokenCache
    /\ UNCHANGED <<agentVars, conversationVars, gitVars, rateLimitVars, exportVars,
                   localSandboxVars, managerVars>>

\* the call pushToGitHub awaits raised
PushThrows ==
    /\ pushRun.pc \in {"exportGitObjects", "exportToGitHub", "updateGitHubRepository"}
    /\ pushRun' = pushFailed(pushRun)
    /\ UNCHANGED githubTokenCache
    /\ UNCHANGED <<agentVars, conversationVars, gitVars, rateLimitVars, exportVars,
                   localSandboxVars, managerVars>>

FreshPush ==
    /\ githubTokenCache = NoGitHubToken
    /\ pushRun = NoPush

(***************************************************************************)
(* The local sandbox: exec, writeFile, readFile and startProcess.  A path  *)
(* is the sequence of its segments; the paths of the disk are absolute.    *)
(***************************************************************************)
\* segments of the paths handed to the sandbox; "notes..txt" is the name of
\* a file
Segments == {"..", ".", "etc", "data", "notes..txt"}

Paths == UNION {[1..n -> Segments] : n \in 1..MaxPathLen}

\* process.cwd()
getBasePath == <<"srv", "app">>

\* the files of the host before the first call: one outside the base
\* directory, one inside
HostFiles == {<<"etc">>, <<"srv", "app", "data">>}

\* str.includesDotDot('..'): a separator is no dot, so two dots in a row lie in
\* one segment
includesDotDot(path) == \E i \in DOMAIN path : path[i] \in {"..", "notes..txt"}

\* path.normalize of an absolute path: "." is dropped, ".." takes the
\* segment before it away and is dropped at the root
RECURSIVE normalize(_, _)
normalize(done, rest) ==
    IF rest = <<>> THEN done
    ELSE IF Head(rest) = "." THEN normalize(done, Tail(rest))
    ELSE IF Head(rest) = ".."
    THEN normalize(IF done = <<>> THEN done ELSE SubSeq(done, 1, Len(done) - 1),
                   Tail(rest))
    ELSE normalize(Append(done, Head(rest)), Tail(rest))

\* path.join(a, b)
join(a, b) == normalize(<<>>, a \o b)

\* s is the beginning of t
IsPrefix(s, t) == Len(s) <= Len(t) /\ SubSeq(t, 1, Len(s)) = s

\* the path is at or under the base directory
InsideBase(path) == IsPrefix(getBasePath, path)

\* fs.mkdir(dirname, recursive) and fs.writeFile succeed: the path is no
\* directory and no file is on the way to it
writable(files, path) ==
    /\ ~ IsPrefix(path, getBasePath)
    /\ \A f \in files : f # path => ~ IsPrefix(path, f) /\ ~ IsPrefix(f, path)

NoSandboxCall ==
    [op |-> "none", arg |-> <<>>, effect |-> "none", target |-> <<>>,
     success |-> FALSE, n |-> 0]

SandboxCall(op, arg, effect, target, success) ==
    [op |-> op, arg |-> arg, effect |-> effect, target |-> target,
     success |-> success, n |-> sandboxCall.n + 1]

\* exec(command, {cwd}): the guard is on cwd as given; cwd <<>> is no cwd
exec(cwd, exitCode) ==
    LET dir == IF cwd = <<>> THEN getBasePath ELSE cwd
    IN  IF includesDotDot(dir)
        THEN SandboxCall("exec", cwd, "none", <<>>, FALSE)
        ELSE SandboxCall("exec", cwd, "ran", normalize(<<>>, dir), exitCode = 0)

\* writeFile(filePath, content): the guard is on the joined path
writeFile(files, filePath) ==
    LET fullPath == join(getBasePath, filePath)
    IN  IF includesDotDot(fullPath) \/ ~ writable(files, fullPath)
        THEN SandboxCall("writeFile", filePath, "none", fullPath, FALSE)
        ELSE SandboxCall("writeFile", filePath, "wrote", fullPath, TRUE)

\* readFile(filePath): the guard is on the joined path
readFile(files, filePath) ==
    LET fullPath == join(getBasePath, filePath)
    IN  IF includesDotDot(fullPath) \/ fullPath \notin files
        THEN SandboxCall("readFile", filePath, "none", fullPath, FALSE)
        ELSE SandboxCall("readFile", filePath, "read", fullPath, TRUE)

\* startProcess(command, {cwd}): the guard is on cwd as given, and raises
startProcess(cwd) ==
    LET dir == IF cwd = <<>> THEN getBasePath ELSE cwd
    IN  IF includesDotDot(dir)
        THEN SandboxCall("startProcess", cwd, "none", <<>>, FALSE)
        ELSE SandboxCall("startProcess", cwd, "started", normalize(<<>>, dir), TRUE)

Exec ==
    /\ sandboxCall.n < MaxSandboxCalls
    /\ \E cwd \in Paths \cup {<<>>}, exitCode \in {0, 1} :
            sandboxCall' = exec(cwd, exitCode)
    /\ UNCHANGED <<disk, processes>>
    /\ UNCHANGED <<agentVars, conversationVars, gitVars, rateLimitVars, exportVars,
                   pushVars, managerVars>>

WriteFile ==
    /\ sandboxCall.n < MaxSandboxCalls
    /\ \E filePath \in Paths :
        /\ sandboxCall' = writeFile(disk, filePath)
        /\ disk' = IF sandboxCall'.effect = "wrote"
                   THEN disk \cup {sandboxCall'.target}
                   ELSE disk
    /\ UNCHANGED processes
    /\ UNCHANGED <<agentVars, conversationVars, gitVars, rateLimitVars, exportVars,
                   pushVars, managerVars>>

ReadFile ==
    /\ sandboxCall.n < MaxSandboxCalls
    /\ \E filePath \in Paths : sandboxCall' = readFile(disk, filePath)
    /\ UNCHANGED <<disk, processes>>
    /\ UNCHANGED <<agentVars, conversationVars, gitVars, rateLimitVars, exportVars,
                   pushVars, managerVars>>

StartProcess ==
    /\ sandboxCall.n < MaxSandboxCalls
    /\ \E cwd \in Paths \cup {<<>>} :
        /\ sandboxCall' = startProcess(cwd)
        /\ processes' = IF sandboxCall'.effect = "started"
                        THEN processes \cup {Cardinality(processes) + 1}
                        ELSE processes
    /\ UNCHANGED disk
    /\ UNCHANGED <<agentVars, conversationVars, gitVars, rateLimitVars, exportVars,
                   pushVars, managerVars>>

FreshLocalSandbox ==
    /\ disk = HostFiles
    /\ processes = {}
    /\ sandboxCall = NoSandboxCall

(***************************************************************************)
(* The agent manager: getAgent and createAgent.  An instance is named by   *)
(* the createAgent call that made it.                                      *)
(***************************************************************************)
CreateCalls == 1..MaxCreateCalls

AgentIds == {"agent-1", "agent-2"}

\* the locals of a createAgent call not yet made
NoCreateCall == [pc |-> "idle", agentId |-> "", result |-> ""]

NoManagerCall == [op |-> "none", agentId |-> "", call |-> 0, result |-> NULL]

\* this.agents.has(agentId)
has(map, agentId) == map[agentId] # NULL

\* createAgent up to its await: the throw when the id is registered, else
\* a new instance whose initialize is awaited
createAgent(call, agentId) ==
    IF has(agents, agentId)
    THEN [pc |-> "thrown", agentId |-> agentId, result |-> "already exists"]
    ELSE [pc |-> "initialize", agentId |-> agentId, result |-> ""]

CreateAgent(c) ==
    /\ createCalls[c].pc = "idle"
    /\ \A w \in CreateCalls : w < c => createCalls[w].pc # "idle"
    /\ \E agentId \in AgentIds :
        /\ createCalls' = [createCalls EXCEPT ![c] = createAgent(c, agentId)]
        /\ managerCall' = [op |-> "createAgent", agentId |-> agentId, call |-> c,
                           result |-> NULL]
    /\ UNCHANGED agents
    /\ UNCHANGED <<agentVars, conversationVars, gitVars, rateLimitVars, exportVars,
                   pushVars, localSandboxVars>>

\* agent.initialize returned: the instance is registered and returned
InitializeReturns(c) ==
    /\ createCalls[c].pc = "initialize"
    /\ agents' = [agents EXCEPT ![createCalls[c].agentId] = c]
    /\ createCalls' = [createCalls EXCEPT ![c].pc = "returned", ![c].result = "agent"]
    /\ managerCall' = [op |-> "initialize", agentId |-> createCalls[c].agentId,
                       call |-> c, result |-> c]
    /\ UNCHANGED <<agentVars, conversationVars, gitVars, rateLimitVars, exportVars,
                   pushVars, localSandboxVars>>

\* agent.initialize raised: so does createAgent
InitializeThrows(c) ==
    /\ createCalls[c].pc = "initialize"
    /\ createCalls' = [createCalls EXCEPT ![c].pc = "thrown",
                                          ![c].result = "initialize failed"]
    /\ managerCall' = [op |-> "initialize", agentId |-> createCalls[c].agentId,
                       call |-> c, result |-> NULL]
    /\ UNCHANGED agents
    /\ UNCHANGED <<agentVars, conversationVars, gitVars, rateLimitVars, exportVars,
                   pushVars, localSandboxVars>>

GetAgent ==
    /\ \E agentId \in AgentIds :
        managerCall' = [op |-> "getAgent", agentId |-> agentId, call |-> 0,
                        result |-> agents[agentId]]
    /\ UNCHANGED <<agents, createCalls>>
    /\ UNCHANGED <<agentVars, conversationVars, gitVars, rateLimitVars, exportVars,
                   pushVars, localSandboxVars>>

FreshManager ==
    /\ agents = [agentId \in AgentIds |-> NULL]
    /\ createCalls = [c \in CreateCalls |-> NoCreateCall]
    /\ managerCall = NoManagerCall

\* the GitHub push, the local sandbox and the agent manager before their
\* first call
FreshOuter == FreshPush /\ FreshLocalSandbox /\ FreshManager

(***************************************************************************)
(* Initial states.  A fresh agent: initialState after initialize(), with   *)
(* the blueprint's initial phase; the template details are cached by       *)
(* initialize() and absent when the object was started again.  And an      *)
(* agent at rest after it implemented MAX_PHASES - 1 phases, none of them  *)
(* a last phase, and a phase generation failed: the state in which one     *)
(* unit of the phases budget is left.                                      *)
(***************************************************************************)
InitialPhases ==
    {[name |-> InitialPhaseName, lastPhase |-> l, files |-> 1] : l \in BOOLEAN}

\* the phases record after k phases were implemented one after the other
ImplementedPhases(k) ==
    [i \in 1..k |-> [name |-> IF i = 1 THEN InitialPhaseName ELSE "P" \o ToString(i - 1),
                     lastPhase |-> FALSE, files |-> 1, completed |-> TRUE]]

\* the phase messages of the i-th of the phases implemented one after the other
ImplementedLog(i) ==
    (IF i = 1 THEN <<>> ELSE <<"PHASE_GENERATING", "PHASE_GENERATED">>)
        \o <<"PHASE_IMPLEMENTING", "FILE_GENERATING", "FILE_GENERATED",
              "PHASE_VALIDATING", "PHASE_VALIDATED", "PHASE_IMPLEMENTED">>

InitAgent ==
    /\ \E k \in {0, MAX_PHASES - 1} :
        /\ generatedPhases = ImplementedPhases(k)
        /\ phaseLog = [messages |-> IF k > 0 THEN ImplementedLog(k) ELSE <<>>,
                       stray |-> FALSE]
        /\ phasesCounter = MAX_PHASES - k
        /\ sandboxInstanceId = (k > 0)
        /\ wsBuild = IF k > 0 THEN "complete" ELSE "none"
        /\ blueprint \in {Blueprint(p) : p \in {q \in InitialPhases : k > 0 => ~ q.lastPhase}}
    /\ pendingUserInputs = <<>>
    /\ mvpGenerated = FALSE
    /\ reviewingInitiated = FALSE
    /\ currentPhase = NoPhase
    /\ conversationMessages = <<>>
    /\ pendingUserImages = <<>>
    /\ generationPromise = NULL
    /\ handlingUserInput = FALSE
    /\ currentAbortController = NULL
    /\ templateDetailsCache \in BOOLEAN
    /\ aborted = {}
    /\ pc = [t \in Tasks |-> "idle"]
    /\ currentDevState = [t \in Tasks |-> IDLE]
    /\ phaseConcept = [t \in Tasks |-> NoPhase]
    /\ userContext = [t \in Tasks |-> NoContext]
    /\ abortSignal = [t \in Tasks |-> NULL]
    /\ finalFiles = [t \in Tasks |-> 0]
    /\ nRequests = 0
    /\ nGenerated = 0
    /\ cancelSeen = [t \in Tasks |-> FALSE]
    /\ cancelHit = [t \in Tasks |-> FALSE]
    /\ finalizeRuns = 0
    /\ reviewRuns = 0
    /\ phaseAnnounced = [t \in Tasks |-> FALSE]
    /\ event = NoEvent
    /\ deepDebugPromise = NULL
    /\ deepDebugConversationId = NULL
    /\ lastDeepDebugTranscript = NULL
    /\ debugPc = [s \in Sessions |-> "idle"]
    /\ debugResult = [s \in Sessions |-> ""]
    /\ debugWaiters = {}
    /\ templateDetailsLoading = FALSE
    /\ commandsHistory = <<>>
    /\ lastPackageJson = ""
    /\ packageJsonFile = [contents |-> "", commit |-> ""]
    /\ commandCalls = [c \in Calls |-> NoCall]
    /\ succeeded = {}
    /\ blueprintUpdates = [u \in Updates |-> NoUpdate]
    /\ storedProjectName = [sandbox |-> blueprint["projectName"],
                            database |-> blueprint["projectName"]]

\* the services before their first call
FreshConversation ==
    /\ currentConversation = <<>>
    /\ full_conversations = <<>>
    /\ compact_conversations = <<>>
    /\ conversationCall = NoConversationCall

Init ==
    /\ InitAgent
    /\ FreshConversation
    /\ FreshGit
    /\ FreshRateLimit
    /\ FreshExport
    /\ FreshOuter

BuildStep(t) ==
    \/ EnsureTemplateDetailsLoaded(t)
    \/ EnsureTemplateDetailsThrows(t)
    \/ FetchIssuesForGeneration(t)
    \/ GenerateNextPhaseReturns(t)
    \/ GenerateNextPhaseThrows(t)
    \/ FetchIssuesForImplementation(t)
    \/ ImplementPhaseReturns(t)
    \/ ImplementPhaseThrows(t)
    \/ ImplementPhaseCompletes(t)
    \/ ApplyFastSmartCodeFixes(t)
    \/ FastCodeFixerSettles(t)
    \/ ImplementPhaseSaveThrows(t)
    \/ FetchIssuesForReview(t)
    \/ UpdateAppDone(t)

Next ==
    \/ GenerateAllFiles
    \/ \E t \in Tasks : BuildStep(t)
    \/ CancelCurrentInference
    \/ QueueUserRequest
    \/ HandleUserInputReturns
    \/ SandboxDeployed

Spec == Init /\ [][Next]_vars

\* every operation a build task awaits settles in the end
SpecFair == Spec /\ WF_vars(\E t \in Tasks : BuildStep(t))

\* a generateFiles call is in flight
GeneratingFiles == \E t \in Tasks : pc[t] \in {"tool_op", "tool_post"}

\* the builds of an agent whose deep debugger has phases implemented between
\* the builds, with no user request and no cancellation
NextPhases ==
    \/ ~ GeneratingFiles /\ GenerateAllFiles
    \/ \E t \in Tasks : BuildStep(t)
    \/ \E t \in Tasks : GenerateFilesStep(t)

SpecPhases == Init /\ [][NextPhases]_vars

\* the steps of a build whose operations all succeed
BuildStepSucceeds(t) ==
    \/ EnsureTemplateDetailsLoaded(t)
    \/ FetchIssuesForGeneration(t)
    \/ GenerateNextPhaseReturns(t)
    \/ FetchIssuesForImplementation(t)
    \/ ImplementPhaseReturns(t)
    \/ ImplementPhaseCompletes(t)
    \/ ApplyFastSmartCodeFixes(t)
    \/ FastCodeFixerSettles(t)
    \/ FetchIssuesForReview(t)
    \/ UpdateAppDone(t)

\* the builds of an agent whose user sends messages and whose operations
\* succeed: the frontend starts the first build, and after that the user does
\* no more than send messages
NextUserInput ==
    \/ nRequests = 0 /\ ~ handlingUserInput /\ GenerateAllFiles
    \/ \E t \in Tasks : BuildStepSucceeds(t)
    \/ HandleUserInput
    \/ ConversationQueuesRequest
    \/ HandleUserInputEnds

SpecUserInput == Init /\ [][NextUserInput]_vars

\* the deep debug sessions of an agent that is not building
NextDebug ==
    \/ \E s \in Sessions : DebugStep(s)
    \/ TemplateDetailsLoadSettles
    \/ WaitForDeepDebug

\* the command executions of an agent that is not building
NextCommands == \E c \in Calls : CommandStep(c)

InitCommands == Init /\ templateDetailsCache /\ ~ blueprint.initialPhase.lastPhase

\* an agent at rest, as the services find it
InitAtRest ==
    /\ InitAgent
    /\ templateDetailsCache
    /\ ~ blueprint.initialPhase.lastPhase
    /\ ~ sandboxInstanceId

\* the calls on the conversation histories, from a storage that holds any
\* of the histories
NextConversation ==
    \/ GetConversationState
    \/ AddConversationMessage
    \/ ClearConversation

InitConversation ==
    /\ InitAtRest
    /\ currentConversation \in StoredHistories
    /\ full_conversations \in StoredHistories
    /\ compact_conversations \in StoredHistories
    /\ conversationCall = NoConversationCall
    /\ FreshGit
    /\ FreshRateLimit
    /\ FreshExport
    /\ FreshOuter

SpecConversation == InitConversation /\ [][NextConversation]_vars

\* the calls on the versioned workspace
NextGit ==
    \/ Commit
    \/ Log
    \/ Reset

InitGit ==
    /\ InitAtRest
    /\ FreshConversation
    /\ FreshGit
    /\ FreshRateLimit
    /\ FreshExport
    /\ FreshOuter

SpecGit == InitGit /\ [][NextGit]_vars

\* the calls on the rate limit stores, under any of the configs
NextRateLimit ==
    \/ Increment
    \/ IncrementDO
    \/ ClockAdvances

InitRateLimit ==
    /\ InitAtRest
    /\ FreshConversation
    /\ FreshGit
    /\ FreshExport
    /\ FreshOuter
    /\ clock = 0
    /\ store = <<>>
    /\ stores = <<>>
    /\ granted = [class \in {"InMemoryRateLimitStore", "InMemoryDORateLimitStore"} |->
                    [key \in RateLimitKeys |-> <<>>]]
    /\ rateLimitCall = NoRateLimitCall
    /\ rateLimitConfig \in RateLimitConfigs

SpecRateLimit == InitRateLimit /\ [][NextRateLimit]_vars

\* one GitHub export
NextExport ==
    \/ ExportToGitHub
    \/ ReposGetReturns
    \/ WalkGitTreeReturns
    \/ HashContentReturns
    \/ CreateBlobReturns
    \/ CreateBlobThrows
    \/ PromiseAllSettles
    \/ CreateTreeReturns
    \/ CreateCommitReturns
    \/ UpdateRefReturns
    \/ ExportThrows

InitExport == InitGit

SpecExport == InitExport /\ [][NextExport]_vars

\* the calls on the agent manager
NextManager ==
    \/ \E c \in CreateCalls : CreateAgent(c)
    \/ \E c \in CreateCalls : InitializeReturns(c)
    \/ \E c \in CreateCalls : InitializeThrows(c)
    \/ GetAgent

SpecManager == InitGit /\ [][NextManager]_vars

\* the GitHub pushes of an agent, one after the other
NextPush ==
    \/ PushToGitHub
    \/ ExportGitObjectsReturns
    \/ GetAppDetailsSettles
    \/ ExportToGitHubReturns
    \/ UpdateGitHubRepositoryReturns
    \/ PushThrows

SpecPush == InitGit /\ [][NextPush]_vars

\* the calls on the local sandbox
NextLocalSandbox ==
    \/ Exec
    \/ WriteFile
    \/ ReadFile
    \/ StartProcess

SpecLocalSandbox == InitGit /\ [][NextLocalSandbox]_vars

SpecCommands == InitCommands /\ [][NextCommands]_vars

\* the blueprint updates of an agent that is not building
NextBlueprint == \E u \in Updates : BlueprintStep(u)

InitBlueprint == Init /\ templateDetailsCache /\ ~ blueprint.initialPhase.lastPhase

SpecBlueprint == InitBlueprint /\ [][NextBlueprint]_vars

SpecDebug == Init /\ [][NextDebug]_vars

\* the same with the template details loaded, as handleUserInput leaves them
\* before it runs the conversation and its tools
NextDebugLoaded ==
    \/ \E s \in Sessions : DebugStep(s)
    \/ WaitForDeepDebug

InitLoaded == Init /\ templateDetailsCache

SpecDebugLoaded == InitLoaded /\ [][NextDebugLoaded]_vars

(***************************************************************************)
(* Properties of the state machine.                                        *)
(***************************************************************************)
\* the record of a phase that is not implemented yet
Incomplete(p) ==
    [name |-> p.name, lastPhase |-> p.lastPhase, files |-> p.files, completed |-> FALSE]

\* executePhaseImplementation is always handed a phase: its fallback to
\* state.currentPhase and to a phase generation of its own is never taken
PhaseConceptDefined ==
    \A t \in Tasks :
        (currentDevState[t] = PHASE_IMPLEMENTING
            /\ pc[t] \in {"fetch_issues", "impl_op", "impl_post", "impl_fix"})
        => phaseConcept[t].name # ""

\* the step in which handler op of task t ended as ret
Ended(t, op, ret) ==
    event'.op = op /\ event'.task = t /\ event'.ret = ret

\* C1: in PHASE_IMPLEMENTING, when the phase has been implemented the phases
\* counter is one less than before, and the next state is FINALIZING if (the
\* phase is a last phase or the decremented counter is <= 0) and no user input
\* is pending; it is PHASE_GENERATING in every other case.
ImplementedPhaseDecrementsAndDecides ==
    [][\A t \in Tasks :
        (pc[t] \in {"impl_post", "impl_fix"} /\ currentDevState[t] = PHASE_IMPLEMENTING
            /\ Ended(t, "executePhaseImplementation", "ok"))
        => LET toFinalizing == /\ phaseConcept[t].lastPhase \/ phasesCounter' <= 0
                               /\ Len(pendingUserInputs) = 0
           IN  /\ phasesCounter' = phasesCounter - 1
               /\ event'.next = IF toFinalizing THEN FINALIZING ELSE PHASE_GENERATING
               /\ (currentDevState'[t] = PHASE_GENERATING) <=> ~ toFinalizing]_vars

\* C1 happens: an implementation used up the budget and, with no last phase
\* among the phases, the machine went to FINALIZING
BudgetUsedUpFinalizes ==
    /\ event.op = "executePhaseImplementation" /\ event.ret = "ok"
    /\ event.next = FINALIZING
    /\ phasesCounter = 0
    /\ \A i \in DOMAIN generatedPhases :
            generatedPhases[i].lastPhase => generatedPhases[i].name = FinalPhaseName

\* C2: a launch of the state machine starts in PHASE_IMPLEMENTING with the
\* last incomplete phase if there is one; else in PHASE_GENERATING if there
\* are phases; else in PHASE_IMPLEMENTING with blueprint.initialPhase, which
\* becomes the one record of generatedPhases, incomplete.
LaunchStartsWhereTheRecordsSay ==
    [][\A t \in Tasks :
        (pc[t] = "ensureTemplate" /\ Ended(t, "launchStateMachine", "ok"))
        => LET incompletedPhases == SelectSeq(generatedPhases, LAMBDA p : ~ p.completed)
               last == incompletedPhases[Len(incompletedPhases)]
           IN  IF Len(incompletedPhases) > 0
               THEN /\ currentDevState'[t] = PHASE_IMPLEMENTING
                    /\ Incomplete(phaseConcept'[t]) = last
                    /\ generatedPhases' = generatedPhases
               ELSE IF Len(generatedPhases) > 0
               THEN /\ currentDevState'[t] = PHASE_GENERATING
                    /\ generatedPhases' = generatedPhases
               ELSE /\ currentDevState'[t] = PHASE_IMPLEMENTING
                    /\ phaseConcept'[t] = blueprint.initialPhase
                    /\ generatedPhases' = <<Incomplete(blueprint.initialPhase)>>]_vars

\* C2 happens: a later launch took up the phase an earlier build left incomplete
LaunchResumedIncompletePhase ==
    /\ event.op = "launchStateMachine"
    /\ currentDevState[event.task] = PHASE_IMPLEMENTING
    /\ Len(generatedPhases) > 1
    /\ phaseConcept[event.task].name = generatedPhases[Len(generatedPhases)].name
    /\ ~ generatedPhases[Len(generatedPhases)].completed

\* C3: in PHASE_GENERATING, when the operation returns a phase without files
\* the state appends no record and hands over to FINALIZING (whose entry may
\* append the finalization record in the same step); otherwise it appends
\* exactly one incomplete record, broadcasts PHASE_GENERATED and hands over to
\* PHASE_IMPLEMENTING with that phase.
GenerationRecordsPhaseOrFinalizes ==
    [][\A t \in Tasks :
        (pc[t] = "gen_op" /\ event'.op = "generateNextPhase" /\ event'.task = t)
        => IF event'.ret = "nofiles"
           THEN /\ event'.next = FINALIZING
                /\ currentDevState'[t] \notin {PHASE_GENERATING, PHASE_IMPLEMENTING}
                /\ \/ generatedPhases' = generatedPhases
                   \/ /\ finalizeRuns' = finalizeRuns + 1
                      /\ generatedPhases' = Append(generatedPhases, Incomplete(FinalPhase))
           ELSE /\ Len(generatedPhases') = Len(generatedPhases) + 1
                /\ SubSeq(generatedPhases', 1, Len(generatedPhases)) = generatedPhases
                /\ generatedPhases'[Len(generatedPhases')] = Incomplete(phaseConcept'[t])
                /\ phaseConcept'[t].name = event'.ret
                /\ phaseConcept'[t].files > 0
                /\ \E i \in DOMAIN event'.sent : event'.sent[i] = "PHASE_GENERATED"
                /\ event'.next = PHASE_IMPLEMENTING
                /\ currentDevState'[t] = PHASE_IMPLEMENTING]_vars

\* C3 happens: a generated phase with files was recorded and is being implemented
GeneratedPhaseRecorded ==
    /\ event.op = "generateNextPhase" /\ event.ret # "nofiles"
    /\ event.next = PHASE_IMPLEMENTING
    /\ generatedPhases[Len(generatedPhases)].name = event.ret
    /\ ~ generatedPhases[Len(generatedPhases)].completed

\* the phases implemented so far, the finalization phase aside
ImplementedCount ==
    Cardinality({i \in DOMAIN generatedPhases :
                    /\ generatedPhases[i].completed
                    /\ generatedPhases[i].name # FinalPhaseName})

\* C4: with an initial phase that is not a last phase and no user input, the
\* agent implements at most MAX_PHASES phases: each implemented phase takes
\* one unit of the budget of MAX_PHASES, also when every generated phase has
\* files and is not a last phase.
BudgetBoundsImplementedPhases ==
    (nRequests = 0 /\ ~ blueprint.initialPhase.lastPhase)
    => /\ ImplementedCount <= MAX_PHASES
       /\ ImplementedCount = MAX_PHASES - phasesCounter

\* C4 happens: MAX_PHASES phases, none a last phase, are implemented with no
\* user input and the machine has left for FINALIZING
MaxPhasesImplemented ==
    /\ nRequests = 0
    /\ ~ blueprint.initialPhase.lastPhase
    /\ ImplementedCount = MAX_PHASES
    /\ finalizeRuns = 1
    /\ \A i \in DOMAIN generatedPhases :
            generatedPhases[i].lastPhase => generatedPhases[i].name = FinalPhaseName

\* a task is inside the loop of launchStateMachine
BuildLoopRuns(t) ==
    pc[t] \in {"fetch_issues", "gen_op", "impl_op", "impl_post", "impl_fix"}

\* C5 as stated: while a build loop runs the phases counter never increases,
\* and when it reaches 0 after a phase that is not a last phase the loop goes
\* to FINALIZING.
CounterNeverIncreasesInBuildLoop ==
    [][\A t \in Tasks :
        /\ BuildLoopRuns(t) => phasesCounter' <= phasesCounter
        /\ (pc[t] \in {"impl_post", "impl_fix"} /\ Ended(t, "executePhaseImplementation", "ok")
                /\ phasesCounter' <= 0 /\ ~ phaseConcept[t].lastPhase)
            => event'.next = FINALIZING]_vars

\* C5, amended: the phases counter goes up only when queueUserRequest
\* recharges it, to RECHARGE_PHASES from a lower value, which may happen while
\* a build loop runs; it goes down only by one, when a phase has been
\* implemented; and when it reaches 0 after a phase that is not a last phase
\* the loop goes to FINALIZING.
CounterIncreasesOnlyByRecharge ==
    [][/\ phasesCounter' > phasesCounter
            => event'.op = "queueUserRequest" /\ phasesCounter' = RECHARGE_PHASES
       /\ phasesCounter' < phasesCounter
            => /\ phasesCounter' = phasesCounter - 1
               /\ event'.op = "executePhaseImplementation" /\ event'.ret = "ok"
       /\ \A t \in Tasks :
            (pc[t] \in {"impl_post", "impl_fix"} /\ Ended(t, "executePhaseImplementation", "ok")
                /\ phasesCounter' <= 0 /\ ~ phaseConcept[t].lastPhase)
            => event'.next = FINALIZING]_vars

\* C5 happens: a user request raised the counter while a build loop was running
RechargedWhileBuilding ==
    /\ event.op = "queueUserRequest"
    /\ event.n < RECHARGE_PHASES
    /\ phasesCounter = RECHARGE_PHASES
    /\ \E t \in Tasks : BuildLoopRuns(t)

\* the records of the finalization phase
FinalizationRecords ==
    {i \in DOMAIN generatedPhases : generatedPhases[i].name = FinalPhaseName}

\* C6: the body of FINALIZING runs at most once over the life of the agent and
\* leaves at most one finalization record; a handler that hands over to
\* FINALIZING when mvpGenerated is set appends no record, starts no
\* implementation and leaves the task in REVIEWING or beyond; and mvpGenerated,
\* once set, stays set.
FinalizingBodyRunsAtMostOnce ==
    /\ [](finalizeRuns <= 1 /\ Cardinality(FinalizationRecords) <= 1)
    /\ [][/\ mvpGenerated => mvpGenerated'
          /\ \A t \in Tasks :
                (mvpGenerated /\ event'.task = t /\ event'.next = FINALIZING)
                => /\ Len(generatedPhases') = Len(generatedPhases)
                   /\ finalizeRuns' = finalizeRuns
                   /\ pc'[t] # "impl_op"
                   /\ currentDevState'[t] \in {REVIEWING, IDLE}]_vars

\* C6 happens: FINALIZING was entered again after its body had run, and the
\* machine passed on
FinalizingEnteredAgain ==
    /\ event.next = FINALIZING
    /\ currentDevState[event.task] \in {REVIEWING, IDLE}
    /\ finalizeRuns = 1
    /\ nRequests > 0

ActiveBuilds == {t \in Tasks : pc[t] \notin {"idle", "rejected"}}

\* C8: at most one buildWrapper task is active at any time, and
\* generateAllFiles starts one only when none is running (generationPromise
\* is null) and not when mvpGenerated is set with no user input pending.
AtMostOneBuildLoop ==
    /\ [](Cardinality(ActiveBuilds) <= 1)
    /\ [][(event'.op = "generateAllFiles" /\ event'.ret = "started")
            => /\ generationPromise = NULL
               /\ ActiveBuilds = {}
               /\ ~ (mvpGenerated /\ Len(pendingUserInputs) = 0)
               /\ Cardinality(ActiveBuilds') = 1]_vars

\* C8 happens: generateAllFiles was called while a build was running and
\* started none
SecondBuildRefused ==
    /\ event.op = "generateAllFiles"
    /\ event.ret = "inProgress"
    /\ Cardinality(ActiveBuilds) = 1

\* C9 as stated: once GENERATION_STARTED is broadcast, GENERATION_COMPLETE is
\* broadcast in the end, with the abort controller cleared and
\* generationPromise null, whatever step of buildWrapper fails.
BuildEndsCleanly ==
    (wsBuild = "started")
        ~> (wsBuild = "complete" /\ generationPromise = NULL
                /\ currentAbortController = NULL)

\* C9 fails here: ensureTemplateDetails raised before the try of buildWrapper,
\* the build is over and generationPromise still holds its promise
BuildRejectedBeforeTry ==
    /\ \E t \in Tasks : pc[t] = "rejected" /\ generationPromise = t
    /\ ActiveBuilds = {}
    /\ wsBuild = "started"

\* C10 as stated: a PHASE_IMPLEMENTING state during which
\* cancelCurrentInference was invoked implements no phase and ends the state
\* machine.
CancelInImplementingEndsBuild ==
    (event.op = "executePhaseImplementation" /\ event.cancelled)
    => event.ret # "ok" /\ event.exit # ""

\* C10 fails here: the phase was implemented although cancelCurrentInference
\* was invoked during its PHASE_IMPLEMENTING state, and the loop generates on
CancelledPhaseImplemented ==
    /\ event.op = "executePhaseImplementation"
    /\ event.cancelled
    /\ event.ret = "ok"
    /\ event.next = PHASE_GENERATING
    /\ currentDevState[event.task] = PHASE_GENERATING
    /\ pc[event.task] = "fetch_issues"

\* C11 as stated: once cancelCurrentInference has aborted the controller
\* during a phase, every inference call of that phase carries an aborted
\* signal, the calls the phase issues after the cancel included.
CancelAbortsWholePhase ==
    \A t \in Tasks :
        (InImplementing(t) /\ cancelHit[t] /\ abortSignal[t] # NULL)
        => abortSignal[t] \in aborted

\* C11 fails here: the implementation inference of the phase was over when the
\* cancel aborted the controller, and the code fixer call of the same phase
\* runs with a signal that is not aborted
FixerRunsAfterCancel ==
    \E t \in Tasks :
        /\ pc[t] = "impl_fix"
        /\ currentDevState[t] = PHASE_IMPLEMENTING
        /\ cancelHit[t]
        /\ abortSignal[t] # NULL
        /\ abortSignal[t] \notin aborted

\* the handlers of the states in which an LLM operation runs
PhaseHandlers == {"executePhaseGeneration", "executePhaseImplementation", "executeFinalizing"}

\* the step broadcast msg
Sent(msg) == \E i \in DOMAIN event.sent : event.sent[i] = msg

\* C12 as stated: when an operation of the build loop raises the rate limit
\* error, the error leaves the state machine and the agent broadcasts
\* RATE_LIMIT_ERROR, and no generic ERROR.
RateLimitIsBroadcast ==
    (event.op \in PhaseHandlers /\ event.ret = "rateLimit")
    => Sent("RATE_LIMIT_ERROR") /\ ~ Sent("ERROR")

\* C12 fails here: the rate limit error ended the state machine, buildWrapper
\* is in its finally block and nothing was broadcast for the error
RateLimitSwallowed ==
    /\ event.op \in PhaseHandlers /\ event.ret = "rateLimit"
    /\ event.exit # "" /\ event.next = ""
    /\ pc[event.task] = "wrap_finally"
    /\ event.sent = <<>>

\* C13 as stated: when an LLM operation of PHASE_GENERATING,
\* PHASE_IMPLEMENTING or FINALIZING fails with another error than the rate
\* limit, the handler of the state catches it, ERROR is broadcast and the
\* state machine goes to IDLE.
OperationFailureBroadcastsError ==
    (event.op \in PhaseHandlers /\ event.ret = "error")
    => Sent("ERROR") /\ event.next = IDLE /\ event.exit = IDLE

\* C13 fails here: the implementation operation failed, the state machine
\* went to IDLE and no ERROR was broadcast
ImplementationFailedSilently ==
    /\ event.op = "executePhaseImplementation" /\ event.ret = "error"
    /\ event.next = IDLE /\ event.exit = IDLE
    /\ ~ Sent("ERROR")

\* C14: queueUserRequest(text, images) appends text to pendingUserInputs and
\* images to pendingUserImages, sets phasesCounter to the larger of its
\* value and RECHARGE_PHASES, and changes no other field of the agent nor
\* anything of a running build.
QueueUserRequestFrame ==
    [][event'.op = "queueUserRequest"
        => /\ pendingUserInputs' = Append(pendingUserInputs, nRequests')
           /\ \/ pendingUserImages' = pendingUserImages
              \/ pendingUserImages' = pendingUserImages \o <<nRequests'>>
           /\ phasesCounter' = IF phasesCounter > RECHARGE_PHASES
                               THEN phasesCounter ELSE RECHARGE_PHASES
           /\ event'.n = phasesCounter
           /\ UNCHANGED <<generatedPhases, mvpGenerated, reviewingInitiated, currentPhase,
                          sandboxInstanceId, conversationMessages, blueprint,
                          generationPromise, currentAbortController,
                          templateDetailsCache, aborted, pc, currentDevState,
                          phaseConcept, userContext, abortSignal, finalFiles, wsBuild>>]_vars

\* C14 happens: a request with an image was queued behind an earlier request
\* while the counter was below RECHARGE_PHASES
RequestQueuedBehindAnother ==
    /\ event.op = "queueUserRequest"
    /\ Len(pendingUserInputs) = 2
    /\ pendingUserInputs[2] = nRequests
    /\ Len(pendingUserImages) > 0
    /\ pendingUserImages[Len(pendingUserImages)] = nRequests
    /\ event.n < RECHARGE_PHASES
    /\ phasesCounter = RECHARGE_PHASES

(***************************************************************************)
(* Properties of the deep debug sessions.                                  *)
(***************************************************************************)
\* C15: at most one deep debug session is running at any time, and
\* isDeepDebugging() is true exactly while a session is running
OneDeepDebugSessionAtATime ==
    /\ Cardinality(RunningSessions) <= 1
    /\ isDeepDebugging <=> RunningSessions # {}

\* two sessions run side by side
TwoSessionsRunning == Cardinality(RunningSessions) = 2

\* the step in which the promise of a session settles with ret
SessionSettles(ret) == event'.op = "executeDeepDebug" /\ event'.ret = ret

\* C16: once an executeDeepDebug call has settled, deepDebugPromise and
\* deepDebugConversationId are null; after a success lastDeepDebugTranscript
\* is the transcript of the session, after an error it is what it was
SettledSessionClearsFields ==
    [][/\ SessionSettles("success") \/ SessionSettles("error")
            => deepDebugPromise' = NULL /\ deepDebugConversationId' = NULL
       /\ SessionSettles("success") => lastDeepDebugTranscript' = event'.task
       /\ SessionSettles("error") => lastDeepDebugTranscript' = lastDeepDebugTranscript
      ]_vars

\* a session that failed before its first await left its promise stored
SettledPromiseLeftStored ==
    /\ deepDebugPromise # NULL
    /\ debugPc[deepDebugPromise] = "settled"
    /\ event.op = "executeDeepDebug"

(***************************************************************************)
(* Properties of the command executions.                                   *)
(***************************************************************************)
\* an executeCommands invocation that is inside its loop over the chunks
InLoop(c) == commandCalls[c].pc \in {"execute", "status", "regenerate"}

\* the step sends the chunk of invocation c to the sandbox once more
Resent(c) ==
    /\ InLoop(c)
    /\ commandCalls'[c].pc = "execute"
    /\ commandCalls'[c].chunk = commandCalls[c].chunk
    /\ commandCalls'[c].sends[commandCalls[c].chunk] =
            commandCalls[c].sends[commandCalls[c].chunk] + 1

\* the step in which the sandbox reports a failed install command to c
InstallCommandFailed(c) ==
    /\ commandCalls[c].pc = "execute"
    /\ commandCalls'[c].kind = "executeCommands"
    /\ event'.ret = "results"
    /\ commandCalls'[c].failures # <<>>
    /\ commandCalls'[c].retryCount = commandCalls[c].retryCount + 1
    /\ SelectSeq(commandCalls'[c].failures, isInstallCommand) # <<>>

\* the step in which executeCommands leaves its loop and saves
LoopCompleted(c) ==
    /\ InLoop(c)
    /\ commandCalls[c].chunk = Len(commandCalls[c].sends)
    /\ ~ InLoop(c)'
    /\ event'.ret # "unhealthy"

HistoryHoldsSuccessfulCommands ==
    /\ [](/\ \A i, j \in DOMAIN commandsHistory :
                commandsHistory[i] = commandsHistory[j] => i = j
          /\ \A i \in DOMAIN commandsHistory :
                /\ commandsHistory[i] \in succeeded
                /\ ~ includes(commandsHistory[i],
                              <<" ", "u", "n", "d", "e", "f", "i", "n", "e", "d">>))
    /\ [][/\ Len(commandsHistory) <= Len(commandsHistory')
          /\ SubSeq(commandsHistory', 1, Len(commandsHistory)) = commandsHistory
          /\ \A c \in Calls :
                LoopCompleted(c)
                    => Range(commandCalls[c].successfulCommands)
                            \subseteq Range(commandsHistory')
         ]_vars

\* the history holds a command that the sandbox never executed successfully
FailedCommandInHistory ==
    \E i \in DOMAIN commandsHistory : commandsHistory[i] \notin succeeded

\* the step in which the package.json sync of invocation c ends
SyncEnds(c) ==
    /\ commandCalls[c].pc \in {"readFiles", "saveFile"}
    /\ commandCalls'[c].pc = "done"

\* C19: the sync starts only after a save of commands one of which contains
\* 'install', ' add ', 'remove' or 'uninstall'; a package.json that differs
\* from lastPackageJson becomes lastPackageJson, is saved with the sync
\* commit and FILE_GENERATED is broadcast; otherwise lastPackageJson and the
\* file stay as they are and nothing is broadcast
PackageJsonSyncedWhenChanged ==
    [][\A c \in Calls :
        /\ commandCalls[c].pc # "readFiles" /\ commandCalls'[c].pc = "readFiles"
            => \E i \in DOMAIN commandCalls'[c].saved :
                    \E word \in {<<"i", "n", "s", "t", "a", "l", "l">>,
                                  <<" ", "a", "d", "d", " ">>,
                                  <<"r", "e", "m", "o", "v", "e">>,
                                  <<"u", "n", "i", "n", "s", "t", "a", "l", "l">>} :
                        includes(commandCalls'[c].saved[i], word)
        /\ commandCalls[c].pc = "readFiles" /\ commandCalls'[c].pc = "saveFile"
            => /\ commandCalls'[c].packageJson # lastPackageJson
               /\ lastPackageJson' = commandCalls'[c].packageJson
        /\ commandCalls[c].pc = "saveFile" /\ SyncEnds(c)
            => /\ packageJsonFile' = [contents |-> commandCalls[c].packageJson,
                                      commit |-> SyncCommit]
               /\ event'.sent = <<"FILE_GENERATED">>
        /\ commandCalls[c].pc = "readFiles" /\ SyncEnds(c)
            => /\ UNCHANGED <<lastPackageJson, packageJsonFile>>
               /\ event'.sent = <<>>
      ]_vars

\* lastPackageJson holds contents that were never saved to the file map
PackageJsonRecordedButNotSaved ==
    /\ lastPackageJson # packageJsonFile.contents
    /\ event.op = "syncPackageJsonFromSandbox" /\ event.ret = "error"
    /\ \A c \in Calls : commandCalls[c].pc # "saveFile"

\* the allow-list of the claim
AllowList ==
    {"title", "description", "detailedDescription", "colorPalette", "views",
     "userFlow", "dataFlow", "architecture", "pitfalls", "frameworks",
     "implementationRoadmap"}

\* C20: a step of an updateBlueprint invocation leaves the keys of the
\* blueprint as they are, and a key whose value it changes is either an
\* allow-listed key the patch gives a value other than undefined, which is
\* the new value, or projectName, set by updateProjectName to the valid
\* name of the patch; so initialPhase, plan and the allow-listed keys given
\* undefined keep their previous values
UpdateBlueprintChangesAllowListOnly ==
    [][\A u \in Updates :
        blueprintUpdates'[u] # blueprintUpdates[u] =>
            LET patch == blueprintUpdates'[u].patch
            IN  /\ DOMAIN blueprint' = DOMAIN blueprint
                /\ \A k \in DOMAIN blueprint :
                        blueprint'[k] # blueprint[k] =>
                            /\ k \in DOMAIN patch
                            /\ blueprint'[k] = patch[k].value
                            /\ \/ k \in AllowList /\ patch[k].type # "undefined"
                               \/ /\ k = "projectName"
                                  /\ patch[k].type = "string"
                                  /\ validProjectName(patch[k].value)
                                  /\ event'.op = "updateProjectName"]_vars

\* an invocation whose patch named title and initialPhase has returned: the
\* title is the one of the patch, the initial phase is not
PatchWithInitialPhaseApplied ==
    \E u \in Updates :
        /\ blueprintUpdates[u].pc = "done"
        /\ event.op = "updateBlueprint" /\ event.task = u
        /\ DOMAIN blueprintUpdates[u].patch = {"title", "initialPhase"}
        /\ blueprintUpdates[u].patch["title"].type = "string"
        /\ blueprint["title"] = blueprintUpdates[u].patch["title"].value
        /\ blueprint["initialPhase"] # blueprintUpdates[u].patch["initialPhase"].value

\* no conversation id twice
UniqueIds(history) ==
    \A i, j \in DOMAIN history :
        history[i].conversationId = history[j].conversationId => i = j

\* what the claim says of a history after message was added to it
AddedTo(before, after, message) ==
    IF \E i \in DOMAIN before : before[i].conversationId = message.conversationId
    THEN /\ Len(after) = Len(before)
         /\ \A i \in DOMAIN before :
                after[i] = IF before[i].conversationId = message.conversationId
                           THEN message ELSE before[i]
    ELSE after = Append(before, message)

GetConversationStateFallsBackOnOtherTable ==
    conversationCall.op = "getConversationState" =>
        /\ compact_conversations = <<>>
                => conversationCall.result.runningHistory
                        = deduplicateMessages(full_conversations)
        /\ full_conversations = <<>>
                => conversationCall.result.fullHistory
                        = deduplicateMessages(compact_conversations)

\* C22: getConversationState reads both tables; a history whose table is
\* empty is returned as state.conversationMessages, a history whose table is
\* not empty as what the table holds, each without the later messages of an
\* id that occurs twice
GetConversationStateFallsBackOnAgentState ==
    conversationCall.op = "getConversationState" =>
        /\ conversationCall.result.runningHistory = deduplicateMessages(
                IF compact_conversations = <<>>
                THEN currentConversation ELSE compact_conversations)
        /\ conversationCall.result.fullHistory = deduplicateMessages(
                IF full_conversations = <<>>
                THEN currentConversation ELSE full_conversations)

\* the running history was read with its table empty and the other table
\* not: what was returned is the history of the agent's state
RunningHistoryFromAgentState ==
    /\ conversationCall.op = "getConversationState"
    /\ compact_conversations = <<>>
    /\ full_conversations # <<>>
    /\ currentConversation # <<>>
    /\ conversationCall.result.runningHistory = deduplicateMessages(currentConversation)
    /\ conversationCall.result.runningHistory # deduplicateMessages(full_conversations)

\* the messages of a phase in the order of the claim; those of the
\* generation for a generated phase, those of the files when it has files
PhaseChain(generated, files) ==
    (IF generated THEN <<"PHASE_GENERATING", "PHASE_GENERATED">> ELSE <<>>)
        \o <<"PHASE_IMPLEMENTING">>
        \o (IF files THEN <<"FILE_GENERATING", "FILE_GENERATED">> ELSE <<>>)
        \o <<"PHASE_VALIDATING", "PHASE_VALIDATED", "PHASE_IMPLEMENTED">>

\* the i-th record was made by phase generation
Generated(i) == generatedPhases[i].name \notin {InitialPhaseName, FinalPhaseName}

CommitCalled == gitCall'.op = "commit" /\ gitCall'.calls # gitCall.calls

AllCommits == MaxCommits + 1

LogLength(g) == Len(log(g, AllCommits, FALSE))

\* C24: a commit(files, message) that follows a commit of the same files
\* which returned, and does not throw itself, returns null and leaves HEAD
\* and the length of log() as they are
CommitTwiceCommitsOnce ==
    [][(/\ CommitCalled
        /\ gitCall.op = "commit"
        /\ gitCall.result.kind = "returned"
        /\ gitCall'.files = gitCall.files
        /\ gitCall'.result.kind = "returned")
            => /\ gitCall'.result = Returned(Null)
               /\ resolveHEAD(workspace') = resolveHEAD(workspace)
               /\ LogLength(workspace') = LogLength(workspace)]_vars

\* the contents of the files are those of the commit
InTree(files, tree) ==
    \A i \in 1..Len(files) : tree[files[i].filePath] = files[i].fileContents

\* commit created a commit of files which its parent held with the same contents
SameContentCommittedAgain ==
    /\ gitCall.op = "commit"
    /\ gitCall.files # <<>>
    /\ gitCall.result.kind = "returned"
    /\ gitCall.result.value # Null
    /\ LET created == workspace.commits[gitCall.result.value]
       IN  /\ created.parent # 0
           /\ InTree(gitCall.files, workspace.commits[created.parent].tree)
           /\ created.tree = workspace.commits[created.parent].tree

\* C25: commit creates a commit only if the index after staging differs
\* from the tree of HEAD in some path; otherwise it returns null and writes
\* no commit and no ref, unless staging or git.commit failed, and then it throws
CommitOnlyWhenStagedDiffers ==
    [][CommitCalled =>
        /\ Len(workspace'.commits) > Len(workspace.commits)
                => workspace'.index # HeadTree(workspace)
        /\ gitCall'.failed \in {"stage", "commit"} => gitCall'.result = Threw
        /\ (workspace'.index = HeadTree(workspace) /\ gitCall'.result # Threw)
                => /\ gitCall'.result = Returned(Null)
                   /\ workspace'.commits = workspace.commits
                   /\ workspace'.main = workspace.main
                   /\ workspace'.HEAD = workspace.HEAD]_vars

\* commit([]) created a commit of the tree of its parent
CommitWithoutStagedChange ==
    /\ gitCall.op = "commit"
    /\ gitCall.files = <<>>
    /\ gitCall.failed = ""
    /\ gitCall.result.kind = "returned"
    /\ gitCall.result.value # Null
    /\ LET created == workspace.commits[gitCall.result.value]
       IN  /\ created.parent # 0
           /\ created.tree = workspace.commits[created.parent].tree

\* C26: log(limit) returns at most limit commits, the commit HEAD resolves
\* to first and then its ancestors; the list is empty when the walk fails
LogWalksFromHEAD ==
    gitCall.op = "log" =>
        /\ Len(gitCall.log) <= gitCall.limit
        /\ gitCall.log = IF gitCall.failed = "log" THEN <<>>
                         ELSE walk(workspace, resolveHEAD(workspace), gitCall.limit)

\* log() after a reset to an earlier commit returned the commits of main
LogAfterResetStartsAtMain ==
    /\ gitCall.op = "log"
    /\ workspace.HEAD # 0
    /\ workspace.HEAD < workspace.main
    /\ gitCall.log # <<>>
    /\ gitCall.log[1] = workspace.main


(***************************************************************************)
(* Properties of the rate limit stores                                     *)
(***************************************************************************)
RateLimitClasses == {"InMemoryRateLimitStore", "InMemoryDORateLimitStore"}

\* the successful increments from one time to another
GrantedIn(times, from, to) == Len(SelectSeq(times, LAMBDA t : from <= t /\ t <= to))

\* C27: for each store and key, an interval of length period holds at
\* most limit successful increments, and with a burst configured an
\* interval of length burstWindow holds at most burst of them
SuccessesWithinLimits ==
    \A class \in RateLimitClasses, key \in RateLimitKeys :
        LET times == granted[class][key]
            cfg == rateLimitConfig
        IN  \A i \in 1..Len(times) :
                /\ GrantedIn(times, times[i] - cfg.period * 1000, times[i]) <= cfg.limit
                /\ cfg.burst # 0 =>
                        GrantedIn(times,
                                  times[i] - OrDefault(cfg.burstWindow, DefaultBurstWindow) * 1000,
                                  times[i]) <= cfg.burst

\* an increment was rejected because the burst was used up, with the limit
\* not reached, while the other key was served
RejectedForBurst ==
    /\ rateLimitCall.class # ""
    /\ ~ rateLimitCall.result.success
    /\ rateLimitConfig.burst # 0
    /\ LET times == granted[rateLimitCall.class][rateLimitCall.key]
       IN  /\ GrantedIn(times, Now - rateLimitConfig.burstWindow * 1000, Now)
                    = rateLimitConfig.burst
           /\ GrantedIn(times, Now - rateLimitConfig.period * 1000, Now)
                    < rateLimitConfig.limit
    /\ \E key \in RateLimitKeys \ {rateLimitCall.key} :
            granted[rateLimitCall.class][key] # <<>>

\* the step is an increment of the bucket store with no burst configured
IncrementWithoutBurst ==
    /\ rateLimitCall'.class = "InMemoryRateLimitStore"
    /\ rateLimitCall'.calls # rateLimitCall.calls
    /\ rateLimitConfig.burst = 0

\* the increment of the step returned for the k-th success, counting the
\* successes before it from a time on
CountedFrom(from) ==
    LET key == rateLimitCall'.key
        before == GrantedIn(granted["InMemoryRateLimitStore"][key], from, Now)
        result == rateLimitCall'.result
    IN  /\ result.success =>
                result.remainingLimit = Max(0, rateLimitConfig.limit - (before + 1))
        /\ before >= rateLimitConfig.limit =>
                /\ result = Rejected
                /\ \A b \in DOMAIN store' :
                        b \in DOMAIN store /\ store'[b].count = store[b].count

\* C28 as stated: the k-th successful increment of the last period seconds
\* returns max(0, limit - k), and increments after the limit-th are
\* rejected with 0 and change no bucket count
RemainingCountsThePeriod ==
    [][IncrementWithoutBurst => CountedFrom(Now - rateLimitConfig.period * 1000)]_vars

\* C28: the k-th successful increment since the start of the bucket that
\* holds the start of the period returns max(0, limit - k), and increments
\* after the limit-th are rejected with 0 and change no bucket count
RemainingCountsTheBuckets ==
    [][IncrementWithoutBurst =>
        CountedFrom(bucketTimestamp(
            Now - rateLimitConfig.period * 1000,
            OrDefault(rateLimitConfig.bucketSize, DefaultBucketSize) * 1000))]_vars

\* the first increment of a period returned 0 of 2 because an increment
\* before the period is in the bucket of its start
FirstOfPeriodLeavesNone ==
    /\ rateLimitCall.class = "InMemoryRateLimitStore"
    /\ rateLimitConfig.burst = 0
    /\ rateLimitConfig.limit = 2
    /\ rateLimitCall.result = Accepted(0)
    /\ GrantedIn(granted["InMemoryRateLimitStore"][rateLimitCall.key],
                 Now - rateLimitConfig.period * 1000, Now) = 1


(***************************************************************************)
(* Properties of the GitHub export                                         *)
(***************************************************************************)
\* the contents of the files of the commits
Contents(commits) ==
    UNION {{commits[i].files[f].content : f \in 1..Len(commits[i].files)} :
            i \in 1..Len(commits)}

HasFiles(localCommit) == Len(localCommit.files) > 0

\* C29: an export that succeeded called createBlob once for each content
\* of its commits, and its blobCache holds as many blobs
EachContentUploadedOnce ==
    exportRun.pc = "done" =>
        /\ Len(github.createBlob) = Cardinality(Contents(exportRun.reversedCommits))
        /\ Cardinality(DOMAIN exportRun.blobCache)
                = Cardinality(Contents(exportRun.reversedCommits))

\* an export that succeeded called createBlob twice for one content
ContentUploadedTwice ==
    /\ exportRun.pc = "done"
    /\ \E m, n \in 1..Len(github.createBlob) :
            m # n /\ github.createBlob[m] = github.createBlob[n]
    /\ Cardinality(DOMAIN exportRun.blobCache)
            = Cardinality(Contents(exportRun.reversedCommits))

\* the tree of a commit on GitHub: the blob of its content for each path
TreeOf(files) ==
    [path \in {files[f].path : f \in 1..Len(files)} |->
        BlobSha(files[CHOOSE f \in 1..Len(files) : files[f].path = path].content)]

\* the commits with files, the oldest first, as commits on GitHub each on
\* top of the one before it
RECURSIVE Replayed(_, _)
Replayed(locals, n) ==
    IF n = 0 THEN <<>>
    ELSE Append(Replayed(locals, n - 1),
                [message |-> locals[n].message,
                 tree |-> TreeOf(locals[n].files),
                 parents |-> IF n = 1 THEN <<>> ELSE <<n - 1>>,
                 date |-> <<"ISO", locals[n].timestamp * 1000>>])

\* the commits with files are the oldest first
OldestFirst(locals) ==
    \A m, n \in 1..Len(locals) : m < n => locals[m].timestamp < locals[n].timestamp

PhasesCounterInRange == phasesCounter \in 0..MAX_PHASES

\* an implemented phase took the last unit of the budget
LastUnitOfBudgetSpent ==
    /\ event.op = "executePhaseImplementation"
    /\ event.ret = "ok"
    /\ event.n = 1
    /\ phasesCounter = 0

\* how an implementation that does not complete ends
Interruptions == {"abort", "rateLimit", "error", "saveError"}

\* the records of the phases not implemented yet
IncompleteRecords(phases) == SelectSeq(phases, LAMBDA p : ~ p.completed)

\* C33: the state machine is resumable.  When the implementation of a phase
\* fails or is cancelled, the record of the phase stays incomplete and the
\* phases counter is not decremented; the next generateAllFiles call made
\* while no build runs starts a build; and the launch of that build goes to
\* PHASE_IMPLEMENTING with the interrupted phase and implements it.  The same
\* for the 'Finalization and Review' phase.
InterruptedPhaseResumed ==
    [][/\ \A t \in Tasks :
            (/\ pc[t] \in {"impl_op", "impl_post", "impl_fix"}
             /\ event'.op \in {"executePhaseImplementation", "executeFinalizing"}
             /\ event'.task = t
             /\ event'.ret \in Interruptions)
            => /\ phasesCounter' = phasesCounter
               /\ Len(IncompleteRecords(generatedPhases')) > 0
               /\ LET left == IncompleteRecords(generatedPhases')
                  IN  left[Len(left)] = Incomplete(phaseConcept[t])
       /\ (/\ event'.op = "generateAllFiles"
           /\ event' # event
           /\ generationPromise = NULL
           /\ Len(IncompleteRecords(generatedPhases)) > 0)
          => event'.ret = "started"
       /\ \A t \in Tasks :
            (/\ pc[t] = "ensureTemplate"
             /\ Ended(t, "launchStateMachine", "ok")
             /\ Len(IncompleteRecords(generatedPhases)) > 0)
            => LET left == IncompleteRecords(generatedPhases)
               IN  /\ currentDevState'[t] = PHASE_IMPLEMENTING
                   /\ Incomplete(phaseConcept'[t]) = left[Len(left)]
                   /\ pc'[t] \in {"fetch_issues", "impl_op"}]_vars

\* the finalization phase was interrupted and generateAllFiles, called when
\* no build runs, reports the generation as completed
FinalizationNotResumed ==
    /\ event.op = "generateAllFiles"
    /\ event.ret = "completed"
    /\ generationPromise = NULL
    /\ \E i \in DOMAIN generatedPhases :
            /\ generatedPhases[i].name = FinalPhaseName
            /\ ~ generatedPhases[i].completed

\* record i of the phases was marked complete in this step
MarkedComplete(i) ==
    /\ i \in DOMAIN generatedPhases
    /\ ~ generatedPhases[i].completed
    /\ generatedPhases'[i].completed

\* C34: generatedPhases changes only by a record appended at its end and by
\* completed flags that go from false to true; and a flag is set only by the
\* step that ends the implementation of the phase of that record
PhasesAppendedAndCompletedByTheirImplementation ==
    [][LET n == Len(generatedPhases)
       IN  /\ Len(generatedPhases') \in {n, n + 1}
           /\ Len(generatedPhases') = n + 1 => ~ generatedPhases'[n + 1].completed
           /\ \A i \in 1..n :
                \/ generatedPhases'[i] = generatedPhases[i]
                \/ /\ MarkedComplete(i)
                   /\ generatedPhases'[i] = [generatedPhases[i] EXCEPT !.completed = TRUE]
                   /\ \E t \in Tasks :
                        /\ pc[t] \in {"impl_post", "impl_fix", "tool_post"}
                        /\ event'.task = t
                        /\ event'.ret = "ok"
                        /\ Incomplete(phaseConcept[t]) = generatedPhases[i]]_vars

\* generateFiles has returned on an agent with two phases: both records are
\* complete, and the state machine has implemented one phase only (one unit of
\* the budget is spent), so the other was completed by the debugger's call
RecordCompletedByGenerateFiles ==
    /\ event.op = "generateFiles"
    /\ event.ret = "ok"
    /\ Len(generatedPhases) = 2
    /\ \A i \in DOMAIN generatedPhases :
            generatedPhases[i].completed /\ ~ generatedPhases[i].lastPhase
    /\ phasesCounter = MAX_PHASES - 1

\* C36: a queued request leaves pendingUserInputs only when a phase
\* generation takes it as a suggestion, and when that generation fails or is
\* cancelled the requests it took are pending again
QueuedRequestsNeverLost ==
    [][/\ \A q \in Range(pendingUserInputs) \ Range(pendingUserInputs') :
            \E t \in Tasks :
                /\ pc[t] = "fetch_issues"
                /\ currentDevState[t] = PHASE_GENERATING
                /\ pc'[t] = "gen_op"
                /\ q \in Range(userContext'[t].suggestions)
       /\ \A t \in Tasks :
            (pc[t] = "gen_op" /\ event'.op = "executePhaseGeneration" /\ event'.task = t)
            => \A q \in Range(userContext[t].suggestions) :
                    q \in Range(pendingUserInputs')]_vars

\* a request was queued, no phase generation has returned yet (no phase was
\* generated and the machine never went to FINALIZING), a phase generation
\* has failed, and the agent is at rest with nothing pending
RequestLostByFailedGeneration ==
    /\ nRequests > 0
    /\ pendingUserInputs = <<>>
    /\ nGenerated = 0
    /\ finalizeRuns = 0
    /\ event.op = "executePhaseGeneration"
    /\ \A t \in Tasks : userContext[t] = NoContext

\* a build loop runs
BuildLoopRunning == \E t \in Tasks : pc[t] \notin {"idle", "rejected"}

\* C37: a request queued while a build loop runs is drained in the end by a
\* PHASE_GENERATING step, of that build or of a build that starts with no
\* further action of the user, at whatever point of the loop it was queued.
\* Only a build drains requests and only generateAllFiles, called by the
\* frontend or at the return of handleUserInput, starts one: so a request is
\* never pending on an agent on which no build runs and no handleUserInput
\* call is in flight.
RequestQueuedDuringBuildDrained ==
    pendingUserInputs # <<>> => (BuildLoopRunning \/ handlingUserInput)

\* the build went through FINALIZING and REVIEWING and ended without a
\* failure, the handleUserInput call has returned, and a request is pending
\* on an agent at rest
RequestPendingAfterBuildEnded ==
    /\ pendingUserInputs # <<>>
    /\ ~ handlingUserInput
    /\ generationPromise = NULL
    /\ \A t \in Tasks : pc[t] = "idle"
    /\ event.op = "buildWrapper"
    /\ event.ret = IDLE
    /\ mvpGenerated
    /\ reviewingInitiated
    /\ \A i \in DOMAIN generatedPhases : generatedPhases[i].completed

(***************************************************************************)
(* Termination of the loop of launchStateMachine.                          *)
(***************************************************************************)
\* the states of the loop, by how far they are from IDLE
StateRank(state) ==
    CASE state = IDLE -> 0
      [] state = REVIEWING -> 1
      [] state = FINALIZING -> 2
      [] state = PHASE_IMPLEMENTING -> 3
      [] state = PHASE_GENERATING -> 4

\* the awaits of a state, by how far they are from its end
AwaitRank(at) ==
    CASE at = "impl_fix" -> 1
      [] at = "impl_post" -> 2
      [] at \in {"gen_op", "impl_op"} -> 3
      [] at = "fetch_issues" -> 4
      [] OTHER -> 0

\* the task is inside the loop of launchStateMachine, at one of its awaits
InStateMachine(t) ==
    pc[t] \in {"fetch_issues", "gen_op", "impl_op", "impl_post", "impl_fix"}

\* a bound on the transitions the loop has left: two for each unit of the
\* budget, the units that the requests not yet queued can recharge included
TransitionsLeft(counter, requests, state) ==
    2 * (counter + RECHARGE_PHASES * (MaxRequests - requests)) + StateRank(state)

\* a bound on the steps the loop has left
StepsLeft(counter, requests, state, at) ==
    5 * TransitionsLeft(counter, requests, state) + AwaitRank(at)

\* C40: every build loop terminates, whatever the phase generation and the
\* phase implementation return and whenever the user requests are queued:
\* the number StepsLeft is never negative, no step of the agent raises it
\* and every step of the loop (an await that settles, a state transition)
\* lowers it, so the loop leaves after at most StepsLeft steps.
BuildLoopTerminates ==
    [][\A t \in Tasks : InStateMachine(t) =>
        LET before == StepsLeft(phasesCounter, nRequests, currentDevState[t], pc[t])
            after == StepsLeft(phasesCounter', nRequests', currentDevState'[t], pc'[t])
        IN  /\ before >= 0
            /\ after <= before
            /\ (pc'[t] # pc[t] \/ currentDevState'[t] # currentDevState[t])
                    => after < before]_vars

\* C40 happens: the loop reached IDLE after requests recharged the budget,
\* every phase generated had files and was not a last phase, and the
\* budget ran out
BuildLoopEndedWithBudgetSpent ==
    /\ event.exit = IDLE
    /\ phasesCounter = 0
    /\ nRequests > 0
    /\ nGenerated = MaxGenerated
    /\ reviewRuns = 1
    /\ \A i \in DOMAIN generatedPhases :
            generatedPhases[i].lastPhase => generatedPhases[i].name = FinalPhaseName

(***************************************************************************)
(* updateProjectName and what it leaves behind.                            *)
(***************************************************************************)
\* C39: updateProjectName is all-or-nothing.  When it returns false the
\* blueprint's projectName is the one the call found and
\* PROJECT_NAME_UPDATED is not broadcast; when it returns true the new name
\* is in the agent's state, in the sandbox instance if there is one, and in
\* the database.
UpdateProjectNameAllOrNothing ==
    [][\A u \in Updates :
        (blueprintUpdates'[u].pc = "named" /\ blueprintUpdates[u].pc # "named") =>
            LET call == blueprintUpdates'[u]
                newName == call.patch["projectName"].value
            IN  IF call.ok
                THEN /\ blueprint'["projectName"] = newName
                     /\ sandboxInstanceId => storedProjectName'.sandbox = newName
                     /\ storedProjectName'.database = newName
                ELSE /\ blueprint'["projectName"] = call.before
                     /\ \A i \in DOMAIN event'.sent :
                            event'.sent[i] # "PROJECT_NAME_UPDATED"]_vars

\* updateProjectName returned false for a valid name after the update of
\* the database failed: the new name is in the blueprint and was broadcast,
\* and the database holds the old one
ProjectNameChangedByFailedUpdate ==
    \E u \in Updates :
        /\ blueprintUpdates[u].pc = "named"
        /\ ~ blueprintUpdates[u].ok
        /\ validProjectName(blueprintUpdates[u].patch["projectName"].value)
        /\ blueprint["projectName"] = blueprintUpdates[u].patch["projectName"].value
        /\ blueprint["projectName"] # blueprintUpdates[u].before
        /\ storedProjectName.database = blueprintUpdates[u].before
        /\ event.op = "updateApp"
        /\ event.task = u
        /\ event.ret = "false"
        /\ event.sent = <<"PROJECT_NAME_UPDATED">>

(***************************************************************************)
(* pushToGitHub, the local sandbox and the agent manager.                  *)
(***************************************************************************)
\* C31: a pushToGitHub call that returns a failure has broadcast
\* GITHUB_EXPORT_ERROR and not GITHUB_EXPORT_COMPLETED, and the GitHub token
\* cache of the agent is the one the call found (no step of the call writes
\* the persistent state).
FailedPushLeavesAgentAsItWas ==
    (pushRun.pc = "returned" /\ ~ pushRun.success) =>
        /\ "GITHUB_EXPORT_ERROR" \in Range(pushRun.sent)
        /\ "GITHUB_EXPORT_COMPLETED" \notin Range(pushRun.sent)
        /\ githubTokenCache = pushRun.before

\* the export to GitHub succeeded and cached the token of the call, the
\* update of the database raised: the call returned a failure and the
\* cache holds another token than before
TokenCachedByFailedPush ==
    /\ pushRun.pc = "returned"
    /\ ~ pushRun.success
    /\ pushRun.sent[Len(pushRun.sent)] = "GITHUB_EXPORT_ERROR"
    /\ pushRun.options.token # ""
    /\ githubTokenCache = setGitHubToken(pushRun.options.token, pushRun.options.username)
    /\ githubTokenCache # pushRun.before

\* the path has a segment ".."
HasDotDotSegment(path) == \E i \in DOMAIN path : path[i] = ".."

\* C32: a call of the local sandbox whose file path or working directory
\* has a ".." segment runs no command, writes no file, returns no content
\* and starts no process; and no call reads or writes a file outside the
\* base directory.
TraversalRejected ==
    /\ HasDotDotSegment(sandboxCall.arg) => sandboxCall.effect = "none"
    /\ sandboxCall.effect \in {"wrote", "read"} => InsideBase(sandboxCall.target)

\* writeFile was called with a path with ".." segments and wrote a file
\* outside the base directory
FileWrittenOutsideBase ==
    /\ sandboxCall.op = "writeFile"
    /\ HasDotDotSegment(sandboxCall.arg)
    /\ sandboxCall.effect = "wrote"
    /\ sandboxCall.success
    /\ ~ InsideBase(sandboxCall.target)
    /\ sandboxCall.target \in disk
    /\ sandboxCall.target \notin HostFiles

\* the createAgent calls with this id that returned an agent
Created(calls, agentId) ==
    {c \in CreateCalls : calls[c].agentId = agentId /\ calls[c].pc = "returned"}

\* C38: the manager holds at most one agent per id.  Of the createAgent
\* calls with one id at most one returns an agent (the others raise), so at
\* most one agent is initialized for the id; the agent registered under an
\* id is never replaced; and an agent whose initialization failed is not
\* registered.
OneAgentPerId ==
    [][\A agentId \in AgentIds :
        /\ Cardinality(Created(createCalls', agentId)) <= 1
        /\ has(agents, agentId) => agents'[agentId] = agents[agentId]
        /\ \A c \in CreateCalls :
                createCalls'[c].pc = "thrown" => agents'[agentId] # c]_vars

\* two createAgent calls with one id both returned an agent, and the one
\* registered first was replaced by the other
RegisteredAgentReplaced ==
    \E c, d \in CreateCalls :
        /\ c # d
        /\ createCalls[c].agentId = createCalls[d].agentId
        /\ createCalls[c].pc = "returned"
        /\ createCalls[d].pc = "returned"
        /\ agents[createCalls[c].agentId] = d
        /\ managerCall.op = "initialize"
        /\ managerCall.call = d

====
